---- MODULE Spec2Model ----
(***************************************************************************)
(* Order-taking backend: the order-creation transaction, the operational   *)
(* precondition gate (location / inventory / payment tokens) and the admin *)
(* stock-set entry points, modelled from src/mastra/tools and              *)
(* src/web/admin.                                                          *)
(*                                                                         *)
(* Conventions                                                             *)
(*  - a string the code inspects character by character (a precondition    *)
(*    token) is a sequence of one-character strings;                       *)
(*  - time is in whole seconds since 1970-01-01T00:00:00 of the server's   *)
(*    local time line (new Date("YYYY-MM-DDTHH:MM:SS") is local time);     *)
(*  - money is in mills (1/1000 of a currency unit), so that a declared    *)
(*    total can differ from a two-decimal catalog amount by less than one  *)
(*    cent; 10.00 is 10000.  Comparisons are exact, not IEEE-754.          *)
(***************************************************************************)
EXTENDS Integers, Sequences, FiniteSets, TLC

(***************************************************************************)
(* Characters and the token pattern                                        *)
(***************************************************************************)

Digit ==
  {"0", "1", "2", "3", "4", "5", "6", "7", "8", "9"}

UpperHex ==
  Digit \cup {"A", "B", "C", "D", "E", "F"}

DigitValue(c) ==
  CASE c = "0" -> 0 [] c = "1" -> 1 [] c = "2" -> 2 [] c = "3" -> 3
    [] c = "4" -> 4 [] c = "5" -> 5 [] c = "6" -> 6 [] c = "7" -> 7
    [] c = "8" -> 8 [] c = "9" -> 9

\* Number(str) for a run of decimal digits
RECURSIVE DigitsToNumber(_)
DigitsToNumber(s) ==
  IF s = << >> THEN 0
  ELSE 10 * DigitsToNumber(SubSeq(s, 1, Len(s) - 1)) + DigitValue(s[Len(s)])

\* String.prototype.substring(start, end) with 0-based, end-exclusive indices
substring(s, start, end) ==
  SubSeq(s, start + 1, IF end > Len(s) THEN Len(s) ELSE end)

\* /^PREFIX_\d{8}_\d{6}_[A-F0-9]{8}$/.test(id)
IdPatternTest(prefix, id) ==
  /\ Len(id) = 28
  /\ SubSeq(id, 1, 3) = prefix
  /\ id[4] = "_"
  /\ \A i \in 5..12 : id[i] \in Digit
  /\ id[13] = "_"
  /\ \A i \in 14..19 : id[i] \in Digit
  /\ id[20] = "_"
  /\ \A i \in 21..28 : id[i] \in UpperHex

(***************************************************************************)
(* new Date("YYYY-MM-DDTHH:MM:SS").getTime() on the Node runtime           *)
(***************************************************************************)

\* a JavaScript number here is <<n>>, or NaN
NaN == << >>

Num(n) == <<n>>

\* days from 1970-01-01 to the first day of month m of year y (proleptic
\* Gregorian), as MakeDay computes it
DaysFromCivil(y, m) ==
  LET yy  == IF m <= 2 THEN y - 1 ELSE y
      era == yy \div 400
      yoe == yy - era * 400
      mp  == IF m > 2 THEN m - 3 ELSE m + 9
      doy == (153 * mp + 2) \div 5
      doe == yoe * 365 + yoe \div 4 - yoe \div 100 + doy
  IN  era * 146097 + doe - 719468

\* The ISO date-time parser: month 1..12, day 1..31 (a day past the end of
\* the month rolls over into the next one), hour 0..23 or 24:00:00,
\* minute and second 0..59; anything else is an Invalid Date (NaN).
DateGetTime(dateStr, timeStr) ==
  LET y  == DigitsToNumber(substring(dateStr, 0, 4))
      mo == DigitsToNumber(substring(dateStr, 4, 6))
      d  == DigitsToNumber(substring(dateStr, 6, 8))
      h  == DigitsToNumber(substring(timeStr, 0, 2))
      mi == DigitsToNumber(substring(timeStr, 2, 4))
      s  == DigitsToNumber(substring(timeStr, 4, 6))
  IN  IF \/ mo < 1 \/ mo > 12
         \/ d < 1 \/ d > 31
         \/ mi > 59 \/ s > 59
         \/ h > 24
         \/ (h = 24 /\ (mi # 0 \/ s # 0))
      THEN NaN
      ELSE Num((DaysFromCivil(y, mo) + d - 1) * 86400 + h * 3600 + mi * 60 + s)

\* a > b on JavaScript numbers: false as soon as one side is NaN
GreaterThan(a, b) ==
  IF a = NaN \/ b = NaN THEN FALSE ELSE a[1] > b[1]

\* now.getTime() - t.getTime(), in seconds
TimeDiff(nowTime, t) ==
  IF t = NaN THEN NaN ELSE Num(nowTime - t[1])

(***************************************************************************)
(* The three precondition validators                                       *)
(***************************************************************************)

LocationMaxAge == 24 * 3600
InventoryMaxAge == 60 * 60
PaymentMaxAge == 120 * 60

Valid == [valid |-> TRUE, reason |-> "none"]
Invalid(reason) == [valid |-> FALSE, reason |-> reason]

validateLocationVerification(verifiedLocationId, nowTime) ==
  IF ~IdPatternTest(<<"L", "O", "C">>, verifiedLocationId)
  THEN Invalid("Invalid location verification ID format")
  ELSE LET dateStr == substring(verifiedLocationId, 4, 12)
           timeStr == substring(verifiedLocationId, 13, 19)
           verificationTime == DateGetTime(dateStr, timeStr)
       IN  IF GreaterThan(TimeDiff(nowTime, verificationTime), Num(LocationMaxAge))
           THEN Invalid("Location verification expired (older than 24 hours)")
           ELSE Valid

\* variant: the inventory validator with the payment validator's window
validateInventoryReservation_PaymentWindow(inventoryReservationId, nowTime) ==
  IF ~IdPatternTest(<<"I", "N", "V">>, inventoryReservationId)
  THEN Invalid("Invalid inventory reservation ID format")
  ELSE LET dateStr == substring(inventoryReservationId, 4, 12)
           timeStr == substring(inventoryReservationId, 13, 19)
           reservationTime == DateGetTime(dateStr, timeStr)
       IN  IF GreaterThan(TimeDiff(nowTime, reservationTime), Num(PaymentMaxAge))
           THEN Invalid("Inventory reservation expired (older than 1 hour)")
           ELSE Valid

validateInventoryReservation(inventoryReservationId, nowTime) ==
  IF ~IdPatternTest(<<"I", "N", "V">>, inventoryReservationId)
  THEN Invalid("Invalid inventory reservation ID format")
  ELSE LET dateStr == substring(inventoryReservationId, 4, 12)
           timeStr == substring(inventoryReservationId, 13, 19)
           reservationTime == DateGetTime(dateStr, timeStr)
       IN  IF GreaterThan(TimeDiff(nowTime, reservationTime), Num(InventoryMaxAge))
           THEN Invalid("Inventory reservation expired (older than 1 hour)")
           ELSE Valid

\* variant: an expired payment transaction is reported as a format failure
validatePaymentTransaction_OneReason(paymentTransactionId, nowTime) ==
  IF ~IdPatternTest(<<"T", "X", "N">>, paymentTransactionId)
  THEN Invalid("Invalid payment transaction ID format")
  ELSE LET dateStr == substring(paymentTransactionId, 4, 12)
           timeStr == substring(paymentTransactionId, 13, 19)
           transactionTime == DateGetTime(dateStr, timeStr)
       IN  IF GreaterThan(TimeDiff(nowTime, transactionTime), Num(PaymentMaxAge))
           THEN Invalid("Invalid payment transaction ID format")
           ELSE Valid

validatePaymentTransaction(paymentTransactionId, nowTime) ==
  IF ~IdPatternTest(<<"T", "X", "N">>, paymentTransactionId)
  THEN Invalid("Invalid payment transaction ID format")
  ELSE LET dateStr == substring(paymentTransactionId, 4, 12)
           timeStr == substring(paymentTransactionId, 13, 19)
           transactionTime == DateGetTime(dateStr, timeStr)
       IN  IF GreaterThan(TimeDiff(nowTime, transactionTime), Num(PaymentMaxAge))
           THEN Invalid("Payment transaction expired (older than 2 hours)")
           ELSE Valid

(***************************************************************************)
(* Catalog and order store                                                 *)
(***************************************************************************)

\* bounds of the model
NumTxns == 2
MaxTicks == 2
MaxNewStock == 2

\* concurrent createOrder calls; the uuid of the order a call inserts is
\* modelled by the call's number (orders.id is defaultRandom(), unique)
Txns == 1..NumTxns

NoTxn == 0

\* rows of the products table: decimal(10,2) price in cents, integer stock
ProductRows == {1, 2, 3}

InitialProducts ==
  [p \in ProductRows |->
     CASE p = 1 -> [price |-> 1000, stock |-> 2, isActive |-> TRUE]
       [] p = 2 -> [price |-> 500,  stock |-> 1, isActive |-> TRUE]
       [] p = 3 -> [price |-> 500,  stock |-> 1, isActive |-> FALSE]]

\* parseFloat of a decimal(10,2) column value: cents to mills
parseFloat(decimal) == decimal * 10

\* number.toString() stored into a decimal(10,2) column: the database rounds
\* the decimal text half away from zero to two places (mills to cents)
ToDecimal2(number) ==
  IF number >= 0 THEN (number + 5) \div 10 ELSE -((5 - number) \div 10)

Abs(x) == IF x < 0 THEN -x ELSE x

\* the 0.01 tolerance of the price and total comparisons, in mills
Tolerance == 10

VARIABLES
  now,                \* wall clock, seconds
  products,           \* committed products rows
  orders,             \* committed orders rows, by id
  orderItems,         \* committed order_items rows, in insertion order
  rowLock,            \* products row -> transaction holding its row lock
  pc,                 \* createOrder call -> position
  req,                \* createOrder call -> its arguments
  idx,                \* createOrder call -> index of the line item in hand
  productValidation,  \* createOrder call -> rows read under lock
  txOrder,            \* createOrder call -> uncommitted orders/order_items rows
  txStock,            \* createOrder call -> uncommitted products.stock values
  error,              \* createOrder call -> the error it threw
  calledAt,           \* createOrder call -> the time it was made at
  validation,         \* the last direct call of a validator and its result
  ticks,              \* number of clock steps taken
  toolResult,         \* the last create_order call of the tool and its result
  admin,              \* updateOrderStatusAdmin caller -> its call in progress
  statusResult,       \* the last status update that returned, and its result
  logged,             \* the logger.error entry of the last update_status call
  issued,             \* the last answer of an upstream verification tool
  activeSessions,     \* the admin sessions map: token -> userId, expiresAt
  sessionLog,         \* history: token -> when createSession returned it,
                      \* and whether destroySession was called on it since
  http,               \* the last admin HTTP request and its response
  notification        \* the last customer-notification call and its answer

vars ==
  <<now, products, orders, orderItems, rowLock, pc, req, idx,
    productValidation, txOrder, txStock, error, calledAt, validation, ticks,
    toolResult, admin, statusResult, logged, issued,
    activeSessions, sessionLog, http, notification>>

\* the variables of the tool's create_order case and of the status updates
statusVars == <<toolResult, admin, statusResult, logged, issued>>

\* the variables of the admin web routes and of the notification tool
webVars == <<activeSessions, sessionLog, http, notification>>


NoRequest == [absent |-> TRUE]
NoOrder == [absent |-> TRUE]
NoValidation == [absent |-> TRUE]
NoAnswer == [absent |-> TRUE]

(***************************************************************************)
(* Inputs: tokens, line items, requests                                    *)
(***************************************************************************)

DigitChar(n) ==
  CASE n = 0 -> "0" [] n = 1 -> "1" [] n = 2 -> "2" [] n = 3 -> "3"
    [] n = 4 -> "4" [] n = 5 -> "5" [] n = 6 -> "6" [] n = 7 -> "7"
    [] n = 8 -> "8" [] n = 9 -> "9"

\* String(n).padStart(width, "0")
RECURSIVE PadStart(_, _)
PadStart(n, width) ==
  IF width = 0 THEN << >>
  ELSE Append(PadStart(n \div 10, width - 1), DigitChar(n % 10))

\* `${prefix}_${YYYYMMDD}_${HHMMSS}_${hash}`
MakeId(prefix, ymd, hms, hash) ==
  prefix \o <<"_">> \o PadStart(ymd[1], 4) \o PadStart(ymd[2], 2)
         \o PadStart(ymd[3], 2) \o <<"_">> \o PadStart(hms[1], 2)
         \o PadStart(hms[2], 2) \o PadStart(hms[3], 2) \o <<"_">> \o hash

\* an argument the caller left out
Undefined == <<"undefined">>

LOC == <<"L", "O", "C">>
INV == <<"I", "N", "V">>
TXN == <<"T", "X", "N">>

HashOk == <<"A", "1", "B", "2", "C", "3", "D", "4">>
HashLower == <<"a", "1", "b", "2", "c", "3", "d", "4">>

\* the instant the model starts at: 2025-01-02T12:00:00
StartTime ==
  DateGetTime(PadStart(20250102, 8), PadStart(120000, 6))[1]

\* tokens of one kind: issued now; issued exactly one window ago (valid at
\* StartTime, expired one second later); lower-case hash; month 13; issued
\* tomorrow; left out
FreshId(prefix) == MakeId(prefix, <<2025, 1, 2>>, <<12, 0, 0>>, HashOk)
LowerId(prefix) == MakeId(prefix, <<2025, 1, 2>>, <<12, 0, 0>>, HashLower)
NoDateId(prefix) == MakeId(prefix, <<2025, 13, 2>>, <<12, 0, 0>>, HashOk)
FutureId(prefix) == MakeId(prefix, <<2025, 1, 3>>, <<12, 0, 0>>, HashOk)

LocationIds ==
  { FreshId(LOC), MakeId(LOC, <<2025, 1, 1>>, <<12, 0, 0>>, HashOk),
    LowerId(LOC), NoDateId(LOC), FutureId(LOC), FreshId(TXN), Undefined }

InventoryIds ==
  { FreshId(INV), MakeId(INV, <<2025, 1, 2>>, <<11, 0, 0>>, HashOk),
    LowerId(INV), NoDateId(INV), FutureId(INV), FreshId(LOC), Undefined }

PaymentIds ==
  { FreshId(TXN), MakeId(TXN, <<2025, 1, 2>>, <<10, 0, 0>>, HashOk),
    LowerId(TXN), NoDateId(TXN), FutureId(TXN), FreshId(INV), Undefined }

Item(productId, quantity, unitPrice) ==
  [productId |-> productId, quantity |-> quantity, unitPrice |-> unitPrice]

Request(items, totalAmount, loc, inv, txn, logger) ==
  [orderItems |-> items, totalAmount |-> totalAmount,
   verifiedLocationId |-> loc, inventoryReservationId |-> inv,
   paymentTransactionId |-> txn, logger |-> logger,
   telegramUserId |-> "tg1001"]

Good(items, totalAmount) ==
  Request(items, totalAmount, FreshId(LOC), FreshId(INV), FreshId(TXN), TRUE)

\* requests of concurrent order creation: each line-item shape with its
\* matching total, declared totals around the tolerance, and requests that
\* fail the gate
Requests ==
  { Good(<<Item(1, 1, 10000)>>, 10000),
    Good(<<Item(1, 2, 10000)>>, 20000),
    Good(<<Item(2, 1, 5000)>>, 5000),
    Good(<<Item(1, 1, 10000), Item(2, 1, 5000)>>, 15000),
    Good(<<Item(2, 1, 5000), Item(1, 1, 10000)>>, 15000),
    Good(<<Item(1, 1, 10000), Item(1, 2, 10000)>>, 30000),
    Good(<<Item(1, 1, 10000), Item(1, 1, 10000)>>, 20000),
    Good(<<Item(4, 1, 10000)>>, 10000),
    Good(<<Item(1, 1, 10000), Item(3, 1, 5000)>>, 15000),
    Good(<<Item(2, 2, 5000)>>, 10000),
    Good(<<Item(1, 1, 9000)>>, 10000),
    Good(<<Item(1, 1, 10000)>>, 10004),
    Good(<<Item(1, 1, 10000)>>, 10005),
    Good(<<Item(1, 1, 10000)>>, 9990),
    Good(<<Item(1, 1, 10000)>>, 10011),
    Good(<<Item(1, 2, 10000)>>, 25000),
    Good(<<Item(1, 2, 12500)>>, 25000),
    Good(<<Item(3, 2, 5000)>>, 10000),
    Good(<<Item(2, 2, 5000), Item(4, 1, 10000)>>, 20000),
    Request(<<Item(1, 1, 10000)>>, 10000,
            LowerId(LOC), FreshId(INV), FreshId(TXN), TRUE),
    Request(<<Item(1, 1, 10000)>>, 10000,
            FreshId(LOC), FreshId(INV), Undefined, FALSE) }

\* requests of the gate specification: every combination of tokens
GateRequests ==
  { Request(items, 10000, loc, inv, txn, logger) :
      items \in {<<Item(1, 1, 10000)>>}, loc \in LocationIds,
      inv \in InventoryIds, txn \in PaymentIds, logger \in BOOLEAN }

(***************************************************************************)
(* createOrder                                                             *)
(***************************************************************************)

Error(kind, reason, args) == [kind |-> kind, reason |-> reason, args |-> args]

NoFailure == Error("none", "", << >>)

\* variant: the payment transaction id is not validated
PreconditionFailure_SkipsPayment(r, nowTime) ==
  LET locationValidation ==
        validateLocationVerification(r.verifiedLocationId, nowTime)
      inventoryValidation ==
        validateInventoryReservation(r.inventoryReservationId, nowTime)
  IN  IF ~locationValidation.valid
      THEN Error("OPERATIONAL PRECONDITION FAILED",
                 locationValidation.reason, << >>)
      ELSE IF ~inventoryValidation.valid
      THEN Error("OPERATIONAL PRECONDITION FAILED",
                 inventoryValidation.reason, << >>)
      ELSE NoFailure

\* createOrder up to the start of the transaction: the first log line reads
\* .substring of each token when a logger is given, then the three
\* validators run in order and the first invalid one throws
\* variant: the payment transaction is validated first, then the location,
\* then the inventory reservation
PreconditionFailure_PaymentFirst(r, nowTime) ==
  LET locationValidation ==
        validateLocationVerification(r.verifiedLocationId, nowTime)
      inventoryValidation ==
        validateInventoryReservation(r.inventoryReservationId, nowTime)
      paymentValidation ==
        validatePaymentTransaction(r.paymentTransactionId, nowTime)
  IN  IF /\ r.logger
         /\ Undefined \in {r.verifiedLocationId, r.inventoryReservationId,
                           r.paymentTransactionId}
      THEN Error("TypeError", "reading 'substring' of undefined", << >>)
      ELSE IF ~paymentValidation.valid
      THEN Error("OPERATIONAL PRECONDITION FAILED",
                 paymentValidation.reason, << >>)
      ELSE IF ~locationValidation.valid
      THEN Error("OPERATIONAL PRECONDITION FAILED",
                 locationValidation.reason, << >>)
      ELSE IF ~inventoryValidation.valid
      THEN Error("OPERATIONAL PRECONDITION FAILED",
                 inventoryValidation.reason, << >>)
      ELSE NoFailure

PreconditionFailure(r, nowTime) ==
  LET locationValidation ==
        validateLocationVerification(r.verifiedLocationId, nowTime)
      inventoryValidation ==
        validateInventoryReservation(r.inventoryReservationId, nowTime)
      paymentValidation ==
        validatePaymentTransaction(r.paymentTransactionId, nowTime)
  IN  IF /\ r.logger
         /\ Undefined \in {r.verifiedLocationId, r.inventoryReservationId,
                           r.paymentTransactionId}
      THEN Error("TypeError", "reading 'substring' of undefined", << >>)
      ELSE IF ~locationValidation.valid
      THEN Error("OPERATIONAL PRECONDITION FAILED",
                 locationValidation.reason, << >>)
      ELSE IF ~inventoryValidation.valid
      THEN Error("OPERATIONAL PRECONDITION FAILED",
                 inventoryValidation.reason, << >>)
      ELSE IF ~paymentValidation.valid
      THEN Error("OPERATIONAL PRECONDITION FAILED",
                 paymentValidation.reason, << >>)
      ELSE NoFailure

\* products.stock as transaction t reads it: its own uncommitted write if it
\* made one, else the committed row
TxStock(t, p) ==
  IF p \in DOMAIN txStock[t] THEN txStock[t][p] ELSE products[p].stock

\* variant: SELECT without FOR UPDATE, nothing waits
LockAvailable_NoLocking(t, p) == TRUE

\* a row lock is granted when the row is unlocked or locked by the asker
LockAvailable(t, p) == rowLock[p] \in {NoTxn, t}

ReleaseLocks(t) ==
  [p \in ProductRows |-> IF rowLock[p] = t THEN NoTxn ELSE rowLock[p]]

\* variant: the writes went to the store outside the transaction
RolledBackProducts_KeepsWrites(t) ==
  [p \in ProductRows |-> [products[p] EXCEPT !.stock = TxStock(t, p)]]

\* the committed products rows after transaction t rolled back
RolledBackProducts(t) == products

\* variant: the stock decrements are left out of the commit
CommittedProducts_NoDecrement(t) == products

\* the committed products rows after transaction t committed
CommittedProducts(t) ==
  [p \in ProductRows |-> [products[p] EXCEPT !.stock = TxStock(t, p)]]

\* throw inside db.transaction (or before it): the transaction's writes are
\* discarded, its locks released, the error is rethrown to the caller
Throw(t, err) ==
  /\ pc' = [pc EXCEPT ![t] = "failed"]
  /\ error' = [error EXCEPT ![t] = err]
  /\ products' = RolledBackProducts(t)
  /\ rowLock' = ReleaseLocks(t)
  /\ idx' = [idx EXCEPT ![t] = 0]
  /\ productValidation' = [productValidation EXCEPT ![t] = << >>]
  /\ txOrder' = [txOrder EXCEPT ![t] = NoOrder]
  /\ txStock' = [txStock EXCEPT ![t] = << >>]
  /\ UNCHANGED <<orders, orderItems>>

\* the call, the gate and BEGIN
CreateOrder(t, r) ==
  /\ pc[t] = "idle"
  /\ req' = [req EXCEPT ![t] = r]
  /\ LET failure == PreconditionFailure(r, now)
     IN  IF failure # NoFailure
         THEN Throw(t, failure)
         ELSE /\ pc' = [pc EXCEPT ![t] = "select"]
              /\ idx' = [idx EXCEPT ![t] = 1]
              /\ UNCHANGED <<products, orders, orderItems, rowLock,
                             productValidation, txOrder, txStock, error>>
  /\ calledAt' = [calledAt EXCEPT ![t] = now]
  /\ UNCHANGED <<now, ticks, validation>>
  /\ UNCHANGED webVars
  /\ UNCHANGED statusVars

\* variant: the stock is compared before the product's isActive is looked at
ProductCheck_StockFirst(p, product, quantity) ==
  IF product.stock < quantity
  THEN Error("Insufficient stock", "", <<p, product.stock, quantity>>)
  ELSE IF ~product.isActive
  THEN Error("Product is not available", "", <<p>>)
  ELSE NoFailure

\* the checks of a product row that was found: active, then enough stock
ProductCheck(p, product, quantity) ==
  IF ~product.isActive
  THEN Error("Product is not available", "", <<p>>)
  ELSE IF product.stock < quantity
  THEN Error("Insufficient stock", "", <<p, product.stock, quantity>>)
  ELSE NoFailure

\* one round of the first loop: SELECT ... FOR UPDATE of the item's product
SelectForUpdate(t) ==
  /\ pc[t] = "select"
  /\ LET item == req[t].orderItems[idx[t]]
         p == item.productId
     IN  IF p \notin ProductRows
         THEN Throw(t, Error("Product not found", "", <<p>>))
         ELSE /\ LockAvailable(t, p)
              /\ LET product == [products[p] EXCEPT !.stock = TxStock(t, p)]
                     dbPrice == parseFloat(product.price)
                 IN  IF ProductCheck(p, product, item.quantity) # NoFailure
                     THEN Throw(t, ProductCheck(p, product, item.quantity))
                     ELSE /\ rowLock' = [rowLock EXCEPT ![p] = t]
                          /\ productValidation' =
                               [productValidation EXCEPT ![t] =
                                  Append(@, [id |-> p,
                                             price |-> product.price,
                                             stock |-> product.stock,
                                             requestedQuantity |-> item.quantity,
                                             requestedUnitPrice |-> dbPrice])]
                          /\ IF idx[t] < Len(req[t].orderItems)
                             THEN /\ idx' = [idx EXCEPT ![t] = @ + 1]
                                  /\ pc' = pc
                             ELSE /\ idx' = [idx EXCEPT ![t] = 1]
                                  /\ pc' = [pc EXCEPT ![t] = "insert"]
                          /\ UNCHANGED <<products, orders, orderItems,
                                         txOrder, txStock, error>>
  /\ UNCHANGED <<now, ticks, req, calledAt, validation>>
  /\ UNCHANGED webVars
  /\ UNCHANGED statusVars

RECURSIVE SumTotal(_)
\* productValidation.reduce((sum, p) => sum + p.requestedQuantity * p.requestedUnitPrice, 0)
SumTotal(validated) ==
  IF validated = << >> THEN 0
  ELSE SumTotal(SubSeq(validated, 1, Len(validated) - 1))
       + validated[Len(validated)].requestedQuantity
         * validated[Len(validated)].requestedUnitPrice

\* the value written to orders.total_amount
OrderTotal(r, calculatedTotal) == ToDecimal2(r.totalAmount)

\* variant: the rows carry the unit price the caller declared
OrderItemsData_DeclaredPrice(t) ==
  [i \in 1..Len(req[t].orderItems) |->
     LET declared == req[t].orderItems[i].unitPrice
     IN  [orderId |-> t,
          productId |-> req[t].orderItems[i].productId,
          quantity |-> req[t].orderItems[i].quantity,
          unitPrice |-> ToDecimal2(declared),
          totalPrice |-> ToDecimal2(req[t].orderItems[i].quantity * declared)]]

\* the order_items rows of the order
OrderItemsData(t) ==
  [i \in 1..Len(req[t].orderItems) |->
     LET dbPrice == productValidation[t][i].requestedUnitPrice
     IN  [orderId |-> t,
          productId |-> req[t].orderItems[i].productId,
          quantity |-> req[t].orderItems[i].quantity,
          unitPrice |-> ToDecimal2(dbPrice),
          totalPrice |-> ToDecimal2(req[t].orderItems[i].quantity * dbPrice)]]

\* variant: the declared total is not compared
TotalMismatch_Never(calculatedTotal, totalAmount) == FALSE

\* variant: a tolerance of 1.00
TotalMismatch_Loose(calculatedTotal, totalAmount) ==
  Abs(calculatedTotal - totalAmount) > 100 * Tolerance

\* Math.abs(calculatedTotal - totalAmount) > 0.01
TotalMismatch(calculatedTotal, totalAmount) ==
  Abs(calculatedTotal - totalAmount) > Tolerance

\* the total check and the two INSERTs
InsertOrder(t) ==
  /\ pc[t] = "insert"
  /\ LET calculatedTotal == SumTotal(productValidation[t])
     IN  IF TotalMismatch(calculatedTotal, req[t].totalAmount)
         THEN Throw(t, Error("Total amount mismatch", "",
                             <<calculatedTotal, req[t].totalAmount>>))
         ELSE /\ txOrder' =
                   [txOrder EXCEPT ![t] =
                      [order |-> [id |-> t,
                                  totalAmount |-> OrderTotal(req[t], calculatedTotal),
                                  status |-> "placed",
                                  paymentStatus |-> "pending",
                                  telegramUserId |-> req[t].telegramUserId,
                                  notes |-> << >>,
                                  updatedAt |-> now],
                       items |-> OrderItemsData(t)]]
              /\ pc' = [pc EXCEPT ![t] = "update"]
              /\ UNCHANGED <<products, orders, orderItems, rowLock, idx,
                             productValidation, txStock, error>>
  /\ UNCHANGED <<now, ticks, req, calledAt, validation>>
  /\ UNCHANGED webVars
  /\ UNCHANGED statusVars

\* variant: UPDATE products SET stock = stock - q WHERE id = p, without the
\* stock condition
StockUpdateRows_Unguarded(t, p, quantity) ==
  IF p \in ProductRows THEN {p} ELSE {}

\* UPDATE products SET stock = stock - q WHERE id = p AND stock >= q
\* RETURNING: the rows it updated (id is the primary key: at most one)
StockUpdateRows(t, p, quantity) ==
  IF p \in ProductRows /\ TxStock(t, p) >= quantity THEN {p} ELSE {}

\* variant: SET stock = <stock read by the first loop> - q
DecrementedStock_FromSnapshot(t, p, quantity) == products[p].stock - quantity

\* SET stock = stock - q, on the row as the transaction sees it
DecrementedStock(t, p, quantity) == TxStock(t, p) - quantity

\* one round of the second loop
UpdateStock(t) ==
  /\ pc[t] = "update"
  /\ LET item == req[t].orderItems[idx[t]]
         p == item.productId
         updatedProducts == StockUpdateRows(t, p, item.quantity)
     IN  /\ LockAvailable(t, p)
         /\ IF Cardinality(updatedProducts) = 0
            THEN Throw(t, Error("CRITICAL: Failed to update stock", "", <<p>>))
            ELSE /\ txStock' =
                      [txStock EXCEPT ![t] =
                         (p :> DecrementedStock(t, p, item.quantity)) @@ @]
                 /\ rowLock' = [rowLock EXCEPT ![p] = t]
                 /\ IF idx[t] < Len(req[t].orderItems)
                    THEN /\ idx' = [idx EXCEPT ![t] = @ + 1]
                         /\ pc' = pc
                    ELSE /\ idx' = [idx EXCEPT ![t] = 0]
                         /\ pc' = [pc EXCEPT ![t] = "commit"]
                 /\ UNCHANGED <<products, orders, orderItems,
                                productValidation, txOrder, error>>
  /\ UNCHANGED <<now, ticks, req, calledAt, validation>>
  /\ UNCHANGED webVars
  /\ UNCHANGED statusVars

\* variant: the order_items rows are written by a statement of their own
\* after the transaction, so the commit shows the order without them
CommittedOrderItems_NotYet(t) == orderItems

\* the committed order_items rows after transaction t committed
CommittedOrderItems(t) == orderItems \o txOrder[t].items

\* the callback returned: COMMIT
Commit(t) ==
  /\ pc[t] = "commit"
  /\ products' = CommittedProducts(t)
  /\ orders' = (t :> txOrder[t].order) @@ orders
  /\ orderItems' = CommittedOrderItems(t)
  /\ rowLock' = ReleaseLocks(t)
  /\ pc' = [pc EXCEPT ![t] = "committed"]
  /\ productValidation' = [productValidation EXCEPT ![t] = << >>]
  /\ txOrder' = [txOrder EXCEPT ![t] = NoOrder]
  /\ txStock' = [txStock EXCEPT ![t] = << >>]
  /\ UNCHANGED <<now, ticks, req, idx, error, calledAt, validation>>
  /\ UNCHANGED webVars
  /\ UNCHANGED statusVars

\* the transaction whose lock t is waiting for, if any
WaitsFor(t) ==
  IF pc[t] = "select" /\ req[t].orderItems[idx[t]].productId \in ProductRows
     /\ ~LockAvailable(t, req[t].orderItems[idx[t]].productId)
  THEN rowLock[req[t].orderItems[idx[t]].productId]
  ELSE NoTxn

RECURSIVE WaitChainReaches(_, _, _)
WaitChainReaches(from, target, steps) ==
  IF steps = 0 \/ WaitsFor(from) = NoTxn THEN FALSE
  ELSE \/ WaitsFor(from) = target
       \/ WaitChainReaches(WaitsFor(from), target, steps - 1)

\* variant: the database never looks for cycles of lock waits
DeadlockDetected_Never(t) ==
  /\ FALSE
  /\ UNCHANGED vars

\* the database finds t in a cycle of lock waits and aborts it
DeadlockDetected(t) ==
  /\ WaitChainReaches(t, t, NumTxns)
  /\ Throw(t, Error("deadlock detected", "",
                    <<req[t].orderItems[idx[t]].productId>>))
  /\ UNCHANGED <<now, ticks, req, calledAt, validation>>
  /\ UNCHANGED webVars
  /\ UNCHANGED statusVars

(***************************************************************************)
(* orderManagementTool.execute, action create_order                        *)
(***************************************************************************)

NoToolCall == [absent |-> TRUE]

\* a location token stamped 25 hours before the start
ExpiredLocationId == MakeId(LOC, <<2025, 1, 1>>, <<11, 0, 0>>, HashOk)

\* the context of a create_order call: customer says whether telegramUserId,
\* customerName and deliveryAddress are all given, itemsGiven whether
\* orderItems is; a totalAmount left out reads like 0
Context(customer, itemsGiven, items, totalAmount, loc, inv, txn) ==
  [customer |-> customer, itemsGiven |-> itemsGiven, orderItems |-> items,
   totalAmount |-> totalAmount, verifiedLocationId |-> loc,
   inventoryReservationId |-> inv, paymentTransactionId |-> txn]

ToolContexts ==
  { Context(customer, items[1], items[2], totalAmount, loc, inv, txn) :
      customer \in BOOLEAN,
      items \in { <<TRUE, <<Item(1, 2, 10000)>>>>, <<TRUE, << >>>>,
                  <<TRUE, <<Item(1, 0, 10000)>>>>, <<FALSE, << >>>> },
      totalAmount \in {20000, 25000, 0, -10000},
      loc \in {FreshId(LOC), ExpiredLocationId, LowerId(LOC), Undefined},
      inv \in {FreshId(INV), Undefined},
      txn \in {FreshId(TXN), Undefined} }

ToolFailure(message, detail) ==
  [success |-> FALSE, message |-> message, detail |-> detail]

\* The handler takes action, telegramUserId, telegramUsername, customerName,
\* deliveryAddress, phoneNumber, orderItems, totalAmount, notes, orderId,
\* status and limit out of context.  verifiedLocationId,
\* inventoryReservationId and paymentTransactionId are not among them and
\* are bound nowhere else in the module, so the condition that reads them,
\* right after the required-fields check, throws a ReferenceError; the
\* handler's catch turns it into a failure result.  Nothing after that
\* condition runs: neither the item and total checks nor createOrder.
CreateOrderCase(context) ==
  IF \/ ~context.customer
     \/ ~context.itemsGiven
     \/ context.totalAmount = 0
  THEN ToolFailure("Missing required fields for order creation", "")
  ELSE ToolFailure("Failed to execute order management operation",
                   "verifiedLocationId is not defined")

ExecuteCreateOrder(context) ==
  /\ toolResult' = [context |-> context, result |-> CreateOrderCase(context)]
  /\ UNCHANGED <<now, ticks, products, orders, orderItems, rowLock, pc, req,
                 idx, productValidation, txOrder, txStock, error, calledAt,
                 validation, admin, statusResult, logged, issued>>
  /\ UNCHANGED webVars

(***************************************************************************)
(* Order status updates                                                    *)
(***************************************************************************)

ORDER_STATUSES ==
  {"placed", "received", "in_progress", "out_for_delivery", "delivered",
   "cancelled"}

\* variant: a delivered order may be taken back into preparation
VALID_STATUS_TRANSITIONS_DeliveredReopens ==
  [s \in ORDER_STATUSES |->
     CASE s = "placed" -> <<"received", "cancelled">>
       [] s = "received" -> <<"in_progress", "cancelled">>
       [] s = "in_progress" -> <<"out_for_delivery", "cancelled">>
       [] s = "out_for_delivery" -> <<"delivered", "cancelled">>
       [] s = "delivered" -> <<"in_progress">>
       [] s = "cancelled" -> << >>]

VALID_STATUS_TRANSITIONS ==
  [s \in ORDER_STATUSES |->
     CASE s = "placed" -> <<"received", "cancelled">>
       [] s = "received" -> <<"in_progress", "cancelled">>
       [] s = "in_progress" -> <<"out_for_delivery", "cancelled">>
       [] s = "out_for_delivery" -> <<"delivered", "cancelled">>
       [] s = "delivered" -> << >>
       [] s = "cancelled" -> << >>]

\* array.includes(x)
includes(array, x) == \E i \in 1..Len(array) : array[i] = x

\* bounds of the status model: concurrent updateOrderStatusAdmin callers and
\* the number of admin log entries an order's notes may hold
NumAdminCalls == 2
MaxNotes == 1

AdminCalls == 1..NumAdminCalls

NoAdminCall == [pc |-> "idle"]
NoStatusUpdate == [absent |-> TRUE]
NoNotes == << >>
NoLog == [absent |-> TRUE]

\* order ids handed to the status entry points: none (0), the orders the
\* createOrder calls insert, and an id no order has
StatusOrderIds == {0, 1, 9}

NoSummary == [total |-> 0, successCount |-> 0, failureCount |-> 0]

\* what a status entry point answers: the rows whose status it set, the
\* customer notifications it built, and its error(s); a bulk update also
\* answers its list of updated orders and its summary
StatusResponse(entry, success, err, changed, failed, notifications) ==
  [entry |-> entry, success |-> success, error |-> err, changed |-> changed,
   failed |-> failed, notifications |-> notifications,
   successful |-> << >>, summary |-> NoSummary]

\* sendAutomatedStatusNotification: the Telegram message for the new status,
\* addressed to the order's customer
sendAutomatedStatusNotification(order, newStatus) ==
  [chat_id |-> order.telegramUserId, orderId |-> order.id,
   status |-> newStatus]

\* orderManagementTool.execute, action update_status, with updateOrderStatus:
\* no look at the current status; notes, when given, replace the order's
\* notes; the notification is built from the updated row. When
\* sendAutomatedStatusNotification throws, updateOrderStatus logs the error
\* and returns the updated row without automatedNotification
UpdateStatusTool(orderId, status, notes, notificationThrows) ==
  /\ IF orderId = 0
     THEN /\ statusResult' =
               StatusResponse("tool", FALSE,
                 Error("Order ID and status are required for status update",
                       "", << >>), {}, << >>, {})
          /\ logged' = NoLog
          /\ UNCHANGED orders
     ELSE IF orderId \notin DOMAIN orders
     THEN /\ statusResult' =
               StatusResponse("tool", FALSE,
                 Error("Order not found for status update", "", << >>),
                 {}, << >>, {})
          /\ logged' = NoLog
          /\ UNCHANGED orders
     ELSE LET updatedOrder ==
                [orders[orderId] EXCEPT
                   !.status = status,
                   !.updatedAt = now,
                   !.notes = IF notes # NoNotes THEN notes ELSE @]
          IN  /\ orders' = [orders EXCEPT ![orderId] = updatedOrder]
              /\ IF notificationThrows
                 THEN /\ logged' =
                           [message |->
                              "AUTOMATED: Notification failed but order status updated",
                            orderId |-> orderId, newStatus |-> status]
                      /\ statusResult' =
                           StatusResponse("tool", TRUE, NoFailure,
                             {<<orderId, status>>}, << >>, {})
                 ELSE /\ logged' = NoLog
                      /\ statusResult' =
                           StatusResponse("tool", TRUE, NoFailure,
                             {<<orderId, status>>}, << >>,
                             {sendAutomatedStatusNotification(updatedOrder,
                                                              status)})
  /\ UNCHANGED <<now, ticks, products, orderItems, rowLock, pc, req, idx,
                 productValidation, txOrder, txStock, error, calledAt,
                 validation, toolResult, admin, issued>>
  /\ UNCHANGED webVars

\* POST updateOrderStatus of the admin routes: one UPDATE, no look at the
\* current status, no notification
UpdateOrderStatusRoute(authorized, orderId, status) ==
  /\ IF ~authorized
     THEN /\ statusResult' =
               StatusResponse("http", FALSE, Error("Unauthorized", "", << >>),
                              {}, << >>, {})
          /\ UNCHANGED orders
     ELSE IF orderId = 0
     THEN /\ statusResult' =
               StatusResponse("http", FALSE,
                 Error("Order ID and status required", "", << >>),
                 {}, << >>, {})
          /\ UNCHANGED orders
     ELSE IF status \notin ORDER_STATUSES
     THEN /\ statusResult' =
               StatusResponse("http", FALSE, Error("Invalid status", "", << >>),
                              {}, << >>, {})
          /\ UNCHANGED orders
     ELSE /\ orders' =
               [id \in DOMAIN orders |->
                  IF id = orderId
                  THEN [orders[id] EXCEPT !.status = status, !.updatedAt = now]
                  ELSE orders[id]]
          /\ statusResult' =
               StatusResponse("http", TRUE, NoFailure,
                 {<<id, status>> : id \in DOMAIN orders \cap {orderId}},
                 << >>, {})
  /\ UNCHANGED <<now, ticks, products, orderItems, rowLock, pc, req, idx,
                 productValidation, txOrder, txStock, error, calledAt,
                 validation, toolResult, admin, logged, issued>>
  /\ UNCHANGED webVars

\* adminOrderTool: a call of update_status or bulk_update_status
AdminCall(kind, orderIds, newStatus, adminNotes, adminUserId) ==
  [pc |-> "read", kind |-> kind, orderIds |-> orderIds, pos |-> 1,
   newStatus |-> newStatus, adminNotes |-> adminNotes,
   adminUserId |-> adminUserId, finalNotes |-> << >>, updatedAt |-> 0,
   changed |-> {}, failed |-> << >>, successful |-> << >>]

\* update_status names one order (0: none given), bulk_update_status a list;
\* "" is an adminNotes or adminUserId left out
AdminUpdateInputs ==
  { AdminCall("update_status", <<id>>, st, who[1], who[2]) :
      id \in StatusOrderIds, st \in ORDER_STATUSES,
      who \in {<<"", "">>, <<"checked", "admin7">>, <<"checked", "">>} }

AdminPlainInputs ==
  { AdminCall("update_status", <<id>>, st, "", "") :
      id \in StatusOrderIds, st \in ORDER_STATUSES }
  \cup
  { AdminCall("bulk_update_status", ids, st, "", "") :
      ids \in {<< >>, <<9, 1>>}, st \in ORDER_STATUSES }

AdminRaceInputs ==
  { AdminCall("update_status", <<1>>, st, "", "") : st \in ORDER_STATUSES }

\* the notes updateOrderStatusAdmin writes: the new admin log line in front
\* of the notes it read
FinalNotes(call, currentStatus, existingNotes) ==
  IF call.adminUserId # ""
  THEN <<[at |-> now, admin |-> call.adminUserId, from |-> currentStatus,
          to |-> call.newStatus, text |-> call.adminNotes]>> \o existingNotes
  ELSE IF call.adminNotes # ""
  THEN <<[at |-> now, text |-> call.adminNotes]>> \o existingNotes
  ELSE existingNotes

\* what the admin tool answers when the call is over
AdminResponse(call) ==
  IF call.kind = "update_status"
  THEN IF call.failed = << >>
       THEN StatusResponse("admin", TRUE, NoFailure, call.changed, << >>, {})
       ELSE StatusResponse("admin", FALSE, call.failed[1].error, {}, << >>, {})
  ELSE [StatusResponse("bulk", TRUE, NoFailure, call.changed, call.failed, {})
          EXCEPT !.successful = call.successful,
                 !.summary = [total |-> Len(call.orderIds),
                              successCount |-> Len(call.successful),
                              failureCount |-> Len(call.failed)]]

\* variant: a bulk update gives up at the first order it cannot update
AdminAdvance_StopsAtFailure(a, call) ==
  IF /\ call.kind = "bulk_update_status"
     /\ call.pos < Len(call.orderIds)
     /\ call.failed = << >>
  THEN /\ admin' = [admin EXCEPT ![a] = [call EXCEPT !.pc = "read",
                                                      !.pos = @ + 1]]
       /\ UNCHANGED statusResult
  ELSE /\ admin' = [admin EXCEPT ![a] = NoAdminCall]
       /\ statusResult' = AdminResponse(call)

\* the call goes on to its next order, or returns
AdminAdvance(a, call) ==
  IF call.kind = "bulk_update_status" /\ call.pos < Len(call.orderIds)
  THEN /\ admin' = [admin EXCEPT ![a] = [call EXCEPT !.pc = "read",
                                                      !.pos = @ + 1]]
       /\ UNCHANGED statusResult
  ELSE /\ admin' = [admin EXCEPT ![a] = NoAdminCall]
       /\ statusResult' = AdminResponse(call)

\* adminOrderTool.execute: the required-arguments checks of the two actions
AdminExecute(a, call) ==
  /\ admin[a] = NoAdminCall
  /\ IF call.kind = "update_status" /\ call.orderIds[1] = 0
     THEN /\ statusResult' =
               StatusResponse("admin", FALSE,
                 Error("Order ID and new status are required for status update",
                       "", << >>), {}, << >>, {})
          /\ UNCHANGED admin
     ELSE IF call.kind = "bulk_update_status" /\ Len(call.orderIds) = 0
     THEN /\ statusResult' =
               StatusResponse("bulk", FALSE,
                 Error("Order IDs array and new status are required for bulk update",
                       "", << >>), {}, << >>, {})
          /\ UNCHANGED admin
     ELSE /\ admin' = [admin EXCEPT ![a] = call]
          /\ UNCHANGED statusResult
  /\ UNCHANGED <<now, ticks, products, orders, orderItems, rowLock, pc, req,
                 idx, productValidation, txOrder, txStock, error, calledAt,
                 validation, toolResult, logged, issued>>
  /\ UNCHANGED webVars

\* updateOrderStatusAdmin up to the UPDATE: SELECT status, notes of the
\* order, the transition check against what was read, the notes to write
AdminRead(a) ==
  /\ admin[a].pc = "read"
  /\ LET call == admin[a]
         orderId == call.orderIds[call.pos]
     IN  IF orderId \notin DOMAIN orders
         THEN AdminAdvance(a, [call EXCEPT !.failed =
                Append(@, [orderId |-> orderId,
                           error |-> Error("Order not found", "",
                                           <<orderId>>)])])
         ELSE LET currentStatus == orders[orderId].status
                  validTransitions == VALID_STATUS_TRANSITIONS[currentStatus]
              IN  IF ~includes(validTransitions, call.newStatus)
                  THEN AdminAdvance(a, [call EXCEPT !.failed =
                         Append(@, [orderId |-> orderId,
                                    error |-> Error("Invalid status transition",
                                                    "Valid transitions",
                                                    <<currentStatus,
                                                      call.newStatus,
                                                      validTransitions>>)])])
                  ELSE LET finalNotes ==
                             FinalNotes(call, currentStatus,
                                        orders[orderId].notes)
                       IN  /\ Len(finalNotes) <= MaxNotes
                           /\ admin' = [admin EXCEPT ![a] =
                                [call EXCEPT !.pc = "write",
                                             !.finalNotes = finalNotes,
                                             !.updatedAt = now]]
                           /\ UNCHANGED statusResult
  /\ UNCHANGED <<now, ticks, products, orders, orderItems, rowLock, pc, req,
                 idx, productValidation, txOrder, txStock, error, calledAt,
                 validation, toolResult, logged, issued>>
  /\ UNCHANGED webVars

\* variant: cancelling an order gives the unit of its first line back to the
\* stock
AdminWrite_Restocks(a) ==
  /\ admin[a].pc = "write"
  /\ LET call == admin[a]
         orderId == call.orderIds[call.pos]
     IN  /\ orders' = [orders EXCEPT ![orderId] =
                         [@ EXCEPT !.status = call.newStatus,
                                   !.notes = call.finalNotes,
                                   !.updatedAt = call.updatedAt]]
         /\ products' =
              IF call.newStatus = "cancelled"
              THEN [products EXCEPT ![1].stock = @ + 1]
              ELSE products
         /\ AdminAdvance(a, [call EXCEPT
                               !.changed = @ \cup {<<orderId, call.newStatus>>},
                               !.successful =
                                  Append(@, [orderId |-> orderId,
                                             status |-> call.newStatus])])
  /\ UNCHANGED <<now, ticks, orderItems, rowLock, pc, req, idx,
                 productValidation, txOrder, txStock, error, calledAt,
                 validation, toolResult, logged, issued>>
  /\ UNCHANGED webVars

\* the UPDATE of updateOrderStatusAdmin and its return
AdminWrite(a) ==
  /\ admin[a].pc = "write"
  /\ LET call == admin[a]
         orderId == call.orderIds[call.pos]
     IN  /\ orders' = [orders EXCEPT ![orderId] =
                         [@ EXCEPT !.status = call.newStatus,
                                   !.notes = call.finalNotes,
                                   !.updatedAt = call.updatedAt]]
         /\ AdminAdvance(a, [call EXCEPT
                               !.changed = @ \cup {<<orderId, call.newStatus>>},
                               !.successful =
                                  Append(@, [orderId |-> orderId,
                                             status |-> call.newStatus])])
  /\ UNCHANGED <<now, ticks, products, orderItems, rowLock, pc, req, idx,
                 productValidation, txOrder, txStock, error, calledAt,
                 validation, toolResult, logged, issued>>
  /\ UNCHANGED webVars

NoOrderDetails == [absent |-> TRUE]

\* variant: the details offer every status for every order that is not
\* delivered
getAdminOrderDetails_AnyStatus(orderId) ==
  IF orderId \notin DOMAIN orders
  THEN NoOrderDetails
  ELSE LET validNextStatuses ==
             IF orders[orderId].status = "delivered"
             THEN << >>
             ELSE <<"received", "in_progress", "out_for_delivery",
                    "delivered", "cancelled">>
       IN  [id |-> orderId, status |-> orders[orderId].status,
            validNextStatuses |-> validNextStatuses,
            canUpdate |-> Len(validNextStatuses) > 0]

\* getAdminOrderDetails: the order with the statuses the table allows next
\* and canUpdate; null when no order has the id
getAdminOrderDetails(orderId) ==
  IF orderId \notin DOMAIN orders
  THEN NoOrderDetails
  ELSE LET validNextStatuses ==
             VALID_STATUS_TRANSITIONS[orders[orderId].status]
       IN  [id |-> orderId, status |-> orders[orderId].status,
            validNextStatuses |-> validNextStatuses,
            canUpdate |-> Len(validNextStatuses) > 0]

(***************************************************************************)
(* Admin stock-set                                                         *)
(***************************************************************************)

AdminProductIds == {0, 1, 4}
AdminStockValues == (-1)..MaxNewStock

\* variant: the UPDATE does not wait for the row lock
SetStock_IgnoresLock(productId, newStock) ==
  IF productId \notin ProductRows
  THEN UNCHANGED products
  ELSE products' = [products EXCEPT ![productId].stock = newStock]

\* UPDATE products SET stock = n WHERE id = p, one autocommitted statement
\* that waits for the row lock
SetStock(productId, newStock) ==
  IF productId \notin ProductRows
  THEN UNCHANGED products
  ELSE /\ rowLock[productId] = NoTxn
       /\ products' = [products EXCEPT ![productId].stock = newStock]

\* productCatalogTool, action update_stock
UpdateStockTool(productId, newStock) ==
  /\ IF productId = 0
     THEN UNCHANGED products
     ELSE SetStock(productId, newStock)
  /\ UNCHANGED <<now, ticks, calledAt, validation, orders, orderItems,
                 rowLock, pc, req, idx,
                 productValidation, txOrder, txStock, error>>
  /\ UNCHANGED webVars
  /\ UNCHANGED statusVars

\* POST updateProductStock of the admin routes
UpdateProductStockRoute(authorized, productId, stock) ==
  /\ IF ~authorized
     THEN UNCHANGED products
     ELSE IF productId = 0 \/ stock < 0
     THEN UNCHANGED products
     ELSE SetStock(productId, stock)
  /\ UNCHANGED <<now, ticks, calledAt, validation, orders, orderItems,
                 rowLock, pc, req, idx,
                 productValidation, txOrder, txStock, error>>
  /\ UNCHANGED webVars
  /\ UNCHANGED statusVars

(***************************************************************************)
(* Clock and specifications                                                *)
(***************************************************************************)

Tick ==
  /\ ticks < MaxTicks
  /\ ticks' = ticks + 1
  /\ now' = now + 1
  /\ UNCHANGED <<products, orders, orderItems, rowLock, pc, req, idx,
                 productValidation, txOrder, txStock, error, calledAt,
                 validation>>
  /\ UNCHANGED statusVars
  /\ UNCHANGED webVars

Init ==
  /\ now = StartTime
  /\ ticks = 0
  /\ products = InitialProducts
  /\ orders = << >>
  /\ orderItems = << >>
  /\ rowLock = [p \in ProductRows |-> NoTxn]
  /\ pc = [t \in Txns |-> "idle"]
  /\ req = [t \in Txns |-> NoRequest]
  /\ idx = [t \in Txns |-> 0]
  /\ productValidation = [t \in Txns |-> << >>]
  /\ txOrder = [t \in Txns |-> NoOrder]
  /\ txStock = [t \in Txns |-> << >>]
  /\ error = [t \in Txns |-> NoFailure]
  /\ calledAt = [t \in Txns |-> 0]
  /\ validation = NoValidation
  /\ toolResult = NoToolCall
  /\ admin = [a \in AdminCalls |-> NoAdminCall]
  /\ statusResult = NoStatusUpdate
  /\ logged = NoLog
  /\ issued = NoAnswer
  /\ activeSessions = << >>
  /\ sessionLog = << >>
  /\ http = NoAnswer
  /\ notification = NoAnswer

\* concurrent order creation
Next ==
  \/ \E t \in Txns, r \in Requests : CreateOrder(t, r)
  \/ \E t \in Txns : SelectForUpdate(t)
  \/ \E t \in Txns : InsertOrder(t)
  \/ \E t \in Txns : UpdateStock(t)
  \/ \E t \in Txns : Commit(t)
  \/ \E t \in Txns : DeadlockDetected(t)

Spec == Init /\ [][Next]_vars

\* requests of the specification with admin stock edits
StockRaceRequests ==
  { Good(<<Item(1, 1, 10000)>>, 10000),
    Good(<<Item(1, 2, 10000)>>, 20000),
    Good(<<Item(1, 1, 10000), Item(1, 2, 10000)>>, 30000),
    Good(<<Item(2, 1, 5000), Item(1, 1, 10000)>>, 15000) }

\* concurrent order creation and admin stock edits
NextAdmin ==
  \/ \E t \in Txns, r \in StockRaceRequests : CreateOrder(t, r)
  \/ \E t \in Txns : SelectForUpdate(t)
  \/ \E t \in Txns : InsertOrder(t)
  \/ \E t \in Txns : UpdateStock(t)
  \/ \E t \in Txns : Commit(t)
  \/ \E p \in AdminProductIds, n \in AdminStockValues : UpdateStockTool(p, n)
  \/ \E a \in BOOLEAN, p \in AdminProductIds, n \in AdminStockValues :
       UpdateProductStockRoute(a, p, n)

SpecAdmin == Init /\ [][NextAdmin]_vars

\* one call at a time through the precondition gate, the clock running
NextGate ==
  \/ \E r \in GateRequests : CreateOrder(1, r)
  \/ SelectForUpdate(1)
  \/ InsertOrder(1)
  \/ UpdateStock(1)
  \/ Commit(1)
  \/ Tick

SpecGate == Init /\ [][NextGate]_vars

\* ids handed to the validators directly: those of the requests, and ids
\* that miss the pattern by one character, the id LOC_BADFORMAT and ids
\* stamped 25 hours before the start
ValidatorIds ==
  LocationIds \cup InventoryIds \cup PaymentIds \cup
  { SubSeq(FreshId(LOC), 1, 27),
    Append(FreshId(INV), "0"),
    MakeId(<<"l", "o", "c">>, <<2025, 1, 2>>, <<12, 0, 0>>, HashOk),
    MakeId(TXN, <<2025, 1, 2>>, <<12, 0, 0>>,
           <<"A", "1", "B", "2", "C", "3", "D", "G">>),
    [FreshId(TXN) EXCEPT ![8] = "x"],
    [FreshId(LOC) EXCEPT ![13] = "-"],
    MakeId(LOC, <<2025, 1, 1>>, <<11, 59, 59>>, HashOk),
    MakeId(INV, <<2025, 1, 2>>, <<10, 59, 59>>, HashOk),
    MakeId(TXN, <<2025, 1, 2>>, <<9, 59, 59>>, HashOk),
    MakeId(LOC, <<2024, 2, 30>>, <<24, 0, 0>>, HashOk),
    MakeId(INV, <<2025, 1, 2>>, <<11, 60, 0>>, HashOk),
    LOC \o <<"_", "B", "A", "D", "F", "O", "R", "M", "A", "T">>,
    MakeId(LOC, <<2025, 1, 1>>, <<11, 0, 0>>, HashOk),
    MakeId(INV, <<2025, 1, 1>>, <<11, 0, 0>>, HashOk),
    MakeId(TXN, <<2025, 1, 1>>, <<11, 0, 0>>, HashOk) }

\* one direct call of one validator
Validate(kind, id) ==
  /\ validation' =
       [kind |-> kind, id |-> id, at |-> now,
        result |-> CASE kind = "location" ->
                          validateLocationVerification(id, now)
                     [] kind = "inventory" ->
                          validateInventoryReservation(id, now)
                     [] kind = "payment" ->
                          validatePaymentTransaction(id, now)]
  /\ UNCHANGED <<now, ticks, products, orders, orderItems, rowLock, pc, req,
                 idx, productValidation, txOrder, txStock, error, calledAt>>
  /\ UNCHANGED webVars
  /\ UNCHANGED statusVars

NextValidate ==
  \/ \E kind \in {"location", "inventory", "payment"}, id \in ValidatorIds :
       Validate(kind, id)
  \/ Tick

SpecValidate == Init /\ [][NextValidate]_vars

(***************************************************************************)
(* The upstream verification tools                                         *)
(***************************************************************************)

\* year, month, day of the day number z (days since 1970-01-01)
CivilFromDays(z) ==
  LET z2  == z + 719468
      era == z2 \div 146097
      doe == z2 - era * 146097
      yoe == (doe - doe \div 1460 + doe \div 36524 - doe \div 146096) \div 365
      doy == doe - (365 * yoe + yoe \div 4 - yoe \div 100)
      mp  == (5 * doy + 2) \div 153
      d   == doy - (153 * mp + 2) \div 5 + 1
      m   == IF mp < 10 THEN mp + 3 ELSE mp - 9
      y   == yoe + era * 400 + (IF m <= 2 THEN 1 ELSE 0)
  IN  <<y, m, d>>

\* Date.prototype.toISOString() of the instant utcTime (seconds since the
\* epoch, UTC): YYYY-MM-DDTHH:MM:SS.000Z
toISOString(utcTime) ==
  LET ymd == CivilFromDays(utcTime \div 86400)
      sod == utcTime % 86400
  IN  PadStart(ymd[1], 4) \o <<"-">> \o PadStart(ymd[2], 2) \o <<"-">>
        \o PadStart(ymd[3], 2) \o <<"T">> \o PadStart(sod \div 3600, 2)
        \o <<":">> \o PadStart((sod % 3600) \div 60, 2) \o <<":">>
        \o PadStart(sod % 60, 2) \o <<".", "0", "0", "0", "Z">>

\* str.replace(/[-T:]/g, '')
ReplaceDashTColon(str) ==
  LET Keep(c) == c \notin {"-", "T", ":"} IN SelectSeq(str, Keep)

\* generateTransactionId: TXN_ + the first 15 characters of the ISO text
\* without "-", "T", ":" + _ + 8 upper-case hex digits
generateTransactionId(utcTime, random) ==
  LET dateStr == substring(ReplaceDashTColon(toISOString(utcTime)), 0, 15)
  IN  TXN \o <<"_">> \o dateStr \o <<"_">> \o random

\* the server's local time minus UTC, in seconds: UTC, and Pacific time
UtcOffsets == {0, -(8 * 3600)}

\* crypto.randomBytes(4).toString('hex').toUpperCase()
RandomHex == { HashOk, <<"0", "0", "F", "F", "9", "9", "E", "E">> }

\* crypto-payment-tool, createPaymentInvoice: the answer carries the
\* transaction id generated for the invoice
CreatePaymentInvoice(utcOffset, random) ==
  /\ issued' = [kind |-> "payment", success |-> TRUE, at |-> now,
                token |-> generateTransactionId(now - utcOffset, random)]
  /\ UNCHANGED <<now, ticks, products, orders, orderItems, rowLock, pc, req,
                 idx, productValidation, txOrder, txStock, error, calledAt,
                 validation, toolResult, admin, statusResult, logged>>
  /\ UNCHANGED webVars

\* the delivery area: city and area names as word lists, and ZIP codes
DELIVERY_AREAS ==
  << <<"palm", "springs">>, <<"cathedral", "city">>, <<"rancho", "mirage">>,
     <<"palm", "desert">>, <<"indian", "wells">>, <<"la", "quinta">>,
     <<"indio">>, <<"coachella">>, <<"desert", "hot", "springs">>,
     <<"thousand", "palms">>, <<"bermuda", "dunes">>, <<"thermal">>,
     <<"mecca">>, <<"north", "shore">>, <<"salton", "sea", "beach">>,
     <<"oasis">>, <<"desert", "center">>, <<"coachella", "valley">>,
     <<"palm", "springs", "area">>, <<"desert", "cities">>,
     <<"riverside", "county">> >>

DELIVERY_ZIP_CODES ==
  {"92201", "92202", "92203", "92210", "92230", "92234", "92236", "92240",
   "92241", "92249", "92253", "92254", "92260", "92261", "92262", "92263",
   "92264", "92270", "92274", "92276", "92282"}

\* text.includes(area) on lower-cased text, word by word
TextIncludes(text, area) ==
  \E i \in 0..(Len(text) - Len(area)) :
    SubSeq(text, i + 1, i + Len(area)) = area

\* verifyDeliveryLocation: by ZIP code, then by city, then by a delivery
\* area named in the address ("" and << >> are a zipCode or city left out)
verifyDeliveryLocation(address, zipCode, city) ==
  IF zipCode # "" /\ zipCode \in DELIVERY_ZIP_CODES
  THEN [isInDeliveryArea |-> TRUE, matchedBy |-> "zip_code"]
  ELSE IF city # << >>
          /\ \E k \in DOMAIN DELIVERY_AREAS : TextIncludes(city, DELIVERY_AREAS[k])
  THEN [isInDeliveryArea |-> TRUE, matchedBy |-> "city_name"]
  ELSE IF \E k \in DOMAIN DELIVERY_AREAS :
            TextIncludes(address, DELIVERY_AREAS[k])
  THEN [isInDeliveryArea |-> TRUE, matchedBy |-> "address_keywords"]
  ELSE [isInDeliveryArea |-> FALSE, matchedBy |-> "none"]

\* addresses, ZIP codes and cities handed to the location tool
LocationInputs ==
  { <<address, zipCode, city>> :
      address \in { <<"1", "main", "st">>,
                    <<"5", "palm", "canyon", "dr", "palm", "springs">> },
      zipCode \in {"", "92262", "10001"},
      city \in { << >>, <<"indio">>, <<"new", "york">> } }

\* location-verification-tool: the answer has isInDeliveryArea, the zone,
\* the estimated time and a message; no verification id is part of it
LocationVerification(address, zipCode, city) ==
  /\ LET verification == verifyDeliveryLocation(address, zipCode, city)
     IN  issued' = [kind |-> "location",
                    success |-> verification.isInDeliveryArea,
                    at |-> now, token |-> Undefined]
  /\ UNCHANGED <<now, ticks, products, orders, orderItems, rowLock, pc, req,
                 idx, productValidation, txOrder, txStock, error, calledAt,
                 validation, toolResult, admin, statusResult, logged>>
  /\ UNCHANGED webVars

\* product-catalog-tool, action check_stock: the answer has the product row
\* of an active product; no reservation id is part of it
CheckStock(productId) ==
  /\ issued' = [kind |-> "inventory",
                success |-> /\ productId # 0
                            /\ productId \in ProductRows
                            /\ products[productId].isActive,
                at |-> now, token |-> Undefined]
  /\ UNCHANGED <<now, ticks, products, orders, orderItems, rowLock, pc, req,
                 idx, productValidation, txOrder, txStock, error, calledAt,
                 validation, toolResult, admin, statusResult, logged>>
  /\ UNCHANGED webVars

\* createOrder's validator for the kind of token the last answer carries,
\* applied to that token
ValidateIssued ==
  /\ issued # NoAnswer
  /\ Validate(issued.kind, issued.token)

\* the verification tools, each answer handed to its validator, the clock
\* running
NextIssue ==
  \/ \E utcOffset \in UtcOffsets, random \in RandomHex :
       CreatePaymentInvoice(utcOffset, random)
  \/ \E input \in LocationInputs :
       LocationVerification(input[1], input[2], input[3])
  \/ \E productId \in AdminProductIds \cup {3} : CheckStock(productId)
  \/ ValidateIssued
  \/ Tick

SpecIssue == Init /\ [][NextIssue]_vars

\* the one order the status specifications create
StatusRequests == { Good(<<Item(1, 1, 10000)>>, 10000) }

\* the notes argument of update_status: left out, or one of two texts
StatusNotes ==
  { NoNotes, <<[text |-> "Ring twice"]>>, <<[text |-> "Gate code 42"]>> }

\* one order created, then status updates through every entry point (one
\* admin caller)
NextStatus ==
  \/ \E r \in StatusRequests : CreateOrder(1, r)
  \/ SelectForUpdate(1)
  \/ InsertOrder(1)
  \/ UpdateStock(1)
  \/ Commit(1)
  \/ \E id \in StatusOrderIds, st \in ORDER_STATUSES, notes \in StatusNotes,
        notificationThrows \in BOOLEAN :
       UpdateStatusTool(id, st, notes, notificationThrows)
  \/ \E a \in BOOLEAN, id \in StatusOrderIds,
        st \in ORDER_STATUSES \cup {"refunded"} :
       UpdateOrderStatusRoute(a, id, st)
  \/ \E call \in AdminPlainInputs : AdminExecute(1, call)
  \/ AdminRead(1)
  \/ AdminWrite(1)

SpecStatus == Init /\ [][NextStatus]_vars

\* one order created, then updateOrderStatusAdmin calls one after the other,
\* with admin notes, the clock running
NextAdminStatus ==
  \/ \E r \in StatusRequests : CreateOrder(1, r)
  \/ SelectForUpdate(1)
  \/ InsertOrder(1)
  \/ UpdateStock(1)
  \/ Commit(1)
  \/ \E call \in AdminUpdateInputs : AdminExecute(1, call)
  \/ AdminRead(1)
  \/ AdminWrite(1)
  \/ Tick

SpecAdminStatus == Init /\ [][NextAdminStatus]_vars

\* one order created, then concurrent updateOrderStatusAdmin calls on it
NextStatusRace ==
  \/ \E r \in StatusRequests : CreateOrder(1, r)
  \/ SelectForUpdate(1)
  \/ InsertOrder(1)
  \/ UpdateStock(1)
  \/ Commit(1)
  \/ \E a \in AdminCalls, call \in AdminRaceInputs : AdminExecute(a, call)
  \/ \E a \in AdminCalls : AdminRead(a)
  \/ \E a \in AdminCalls : AdminWrite(a)

SpecStatusRace == Init /\ [][NextStatusRace]_vars

\* the bulk specification: two orders, brought to different statuses by
\* single updates, and bulk updates over lists that name both orders, an id
\* no order has, and one order twice
BulkTxns == {1, 2}

BulkInputs ==
  { AdminCall("update_status", <<id>>, st, "", "") :
      id \in BulkTxns, st \in {"received", "in_progress"} }
  \cup
  { AdminCall("bulk_update_status", ids, st, "", "") :
      ids \in {<<1, 9, 2>>, <<9, 2, 1>>, <<2, 1, 1>>},
      st \in {"received", "in_progress", "cancelled"} }

NextBulk ==
  \/ \E t \in BulkTxns, r \in StatusRequests : CreateOrder(t, r)
  \/ \E t \in BulkTxns : SelectForUpdate(t)
  \/ \E t \in BulkTxns : InsertOrder(t)
  \/ \E t \in BulkTxns : UpdateStock(t)
  \/ \E t \in BulkTxns : Commit(t)
  \/ \E call \in BulkInputs : AdminExecute(1, call)
  \/ AdminRead(1)
  \/ AdminWrite(1)

SpecBulk == Init /\ [][NextBulk]_vars

\* requests of the life-cycle specification: a unit price declared below
\* the catalog's with the right total, and two lines
LifecycleRequests ==
  { Good(<<Item(1, 1, 9000)>>, 10000),
    Good(<<Item(2, 1, 5000), Item(1, 1, 10000)>>, 15000) }

\* orders created one after the other or concurrently, and what comes after
\* for an order: status updates through the tool, the route and the admin
\* engine, and admin stock edits
NextLifecycle ==
  \/ \E t \in BulkTxns, r \in LifecycleRequests : CreateOrder(t, r)
  \/ \E t \in BulkTxns : SelectForUpdate(t)
  \/ \E t \in BulkTxns : InsertOrder(t)
  \/ \E t \in BulkTxns : UpdateStock(t)
  \/ \E t \in BulkTxns : Commit(t)
  \/ \E n \in {0, 2} : UpdateStockTool(1, n)
  \/ \E n \in {0, 2} : UpdateProductStockRoute(TRUE, 1, n)
  \/ \E id \in BulkTxns : UpdateStatusTool(id, "received", NoNotes, FALSE)
  \/ \E id \in BulkTxns : UpdateOrderStatusRoute(TRUE, id, "cancelled")
  \/ \E call \in AdminRaceInputs : AdminExecute(1, call)
  \/ AdminRead(1)
  \/ AdminWrite(1)

SpecLifecycle == Init /\ [][NextLifecycle]_vars

\* requests of the resubmission specification: each token fresh, at the
\* very end of its window at the start (expired one second later), or
\* already expired
ResubmitRequests ==
  { Request(<<Item(1, 1, 10000)>>, 10000, loc, inv, txn, FALSE) :
      loc \in { FreshId(LOC), MakeId(LOC, <<2025, 1, 1>>, <<12, 0, 0>>, HashOk) },
      inv \in { FreshId(INV), MakeId(INV, <<2025, 1, 2>>, <<11, 0, 0>>, HashOk),
                MakeId(INV, <<2025, 1, 2>>, <<10, 59, 59>>, HashOk) },
      txn \in { FreshId(TXN), MakeId(TXN, <<2025, 1, 2>>, <<10, 0, 0>>, HashOk) } }

\* createOrder calls made at different times, among them the same request
\* made again later
NextResubmit ==
  \/ \E t \in Txns, r \in ResubmitRequests : CreateOrder(t, r)
  \/ \E t \in Txns : SelectForUpdate(t)
  \/ \E t \in Txns : InsertOrder(t)
  \/ \E t \in Txns : UpdateStock(t)
  \/ \E t \in Txns : Commit(t)
  \/ Tick

SpecResubmit == Init /\ [][NextResubmit]_vars

\* requests that name products 1 and 2 in opposite list order, and one
\* that names product 1 alone
OppositeOrderRequests ==
  { Good(<<Item(1, 1, 10000), Item(2, 1, 5000)>>, 15000),
    Good(<<Item(2, 1, 5000), Item(1, 1, 10000)>>, 15000),
    Good(<<Item(1, 2, 10000)>>, 20000) }

\* concurrent order creation on those requests
NextLive ==
  \/ \E t \in Txns, r \in OppositeOrderRequests : CreateOrder(t, r)
  \/ \E t \in Txns : SelectForUpdate(t)
  \/ \E t \in Txns : InsertOrder(t)
  \/ \E t \in Txns : UpdateStock(t)
  \/ \E t \in Txns : Commit(t)
  \/ \E t \in Txns : DeadlockDetected(t)

\* a call that can take its next step takes it (the awaited statement
\* returns when the database can run it), and the database's deadlock
\* detector runs when transactions wait in a cycle
SpecLive ==
  /\ Init
  /\ [][NextLive]_vars
  /\ \A t \in Txns :
       /\ WF_vars(SelectForUpdate(t))
       /\ WF_vars(InsertOrder(t))
       /\ WF_vars(UpdateStock(t))
       /\ WF_vars(Commit(t))
       /\ WF_vars(DeadlockDetected(t))

\* create_order through the tool
NextTool == \E context \in ToolContexts : ExecuteCreateOrder(context)

SpecTool == Init /\ [][NextTool]_vars

(***************************************************************************)
(* Properties                                                              *)
(***************************************************************************)

Finished(t) == pc[t] \in {"committed", "failed"}

\* a step taken by createOrder call t
StepOfCall(t) == pc'[t] # pc[t] \/ idx'[t] # idx[t]

RECURSIVE QuantityOrdered(_, _)
\* the total quantity of product p over the line items
QuantityOrdered(items, p) ==
  IF items = << >> THEN 0
  ELSE QuantityOrdered(SubSeq(items, 1, Len(items) - 1), p)
       + (IF items[Len(items)].productId = p
          THEN items[Len(items)].quantity ELSE 0)

RECURSIVE ItemTotals(_, _)
\* the sum of order_items.total_price over the rows of order id
ItemTotals(rows, id) ==
  IF rows = << >> THEN 0
  ELSE ItemTotals(SubSeq(rows, 1, Len(rows) - 1), id)
       + (IF rows[Len(rows)].orderId = id THEN rows[Len(rows)].totalPrice ELSE 0)

RECURSIVE QuantitySold(_, _)
\* the sum of order_items.quantity over the rows naming product p
QuantitySold(rows, p) ==
  IF rows = << >> THEN 0
  ELSE QuantitySold(SubSeq(rows, 1, Len(rows) - 1), p)
       + (IF rows[Len(rows)].productId = p THEN rows[Len(rows)].quantity ELSE 0)

\* C1: every step of a createOrder call other than its commit leaves the
\* committed products, orders and order_items rows as they were, and the step
\* on which the call fails, for whatever reason, leaves no orders row and no
\* order_items row of that call behind.
C1_FailedOrderLeavesStoreUntouched ==
  [][\A t \in Txns :
       (StepOfCall(t) /\ pc'[t] # "committed") =>
         /\ products' = products
         /\ orders' = orders
         /\ orderItems' = orderItems
         /\ pc'[t] = "failed" =>
              /\ t \notin DOMAIN orders'
              /\ \A i \in 1..Len(orderItems') : orderItems'[i].orderId # t]_vars

\* a call failed on the stock update of a later line after an earlier line of
\* the same order had been decremented inside the transaction
C1_Witness ==
  \E t \in Txns :
    /\ pc[t] = "failed"
    /\ error[t].kind = "CRITICAL: Failed to update stock"
    /\ Len(req[t].orderItems) = 2

\* a call for quantity q of product p with fresh tokens and the right total
PlainCall(r, p, q) ==
  /\ r # NoRequest
  /\ Len(r.orderItems) = 1
  /\ r.orderItems[1].productId = p
  /\ r.orderItems[1].quantity = q
  /\ r.totalAmount = q * parseFloat(InitialProducts[p].price)
  /\ r.verifiedLocationId = FreshId(LOC)
  /\ r.inventoryReservationId = FreshId(INV)
  /\ r.paymentTransactionId = FreshId(TXN)

\* C2: when all the concurrent calls ask for quantity q of the same active
\* product with initial stock S, at most S div q of them commit, every one
\* that fails fails with the insufficient-stock error, and once all have
\* finished the stock is S - q * (number committed).
C2_AtMostFloorSucceed ==
  \A p \in {x \in ProductRows : InitialProducts[x].isActive}, q \in 1..2 :
    (\A t \in Txns : PlainCall(req[t], p, q)) =>
      LET S == InitialProducts[p].stock
          won == {t \in Txns : pc[t] = "committed"}
          lost == {t \in Txns : pc[t] = "failed"}
      IN  /\ Cardinality(won) <= S \div q
          /\ \A t \in lost : error[t].kind = "Insufficient stock"
          /\ (won \cup lost = Txns) =>
               products[p].stock = S - q * Cardinality(won)

\* all calls asked for 2 of product 1 (stock 2): one committed, the others
\* failed
C2_Witness ==
  /\ \A t \in Txns : PlainCall(req[t], 1, 2) /\ Finished(t)
  /\ \E t \in Txns : pc[t] = "committed"
  /\ \E t \in Txns : pc[t] = "failed" /\ error[t].args = <<1, 0, 2>>

\* C3: no product's stock is ever negative.
C3_StockNeverNegative ==
  \A p \in ProductRows : products[p].stock >= 0

\* C4: the commit of a createOrder call takes from every product exactly the
\* quantity the order's lines name for it (nothing from a product it does not
\* name); the rows are locked from the read to the commit, so with no other
\* writer the stock before the commit is the stock before the call.
C4_StockDecrementedByQuantity ==
  [][\A t \in Txns :
       (pc[t] = "commit" /\ pc'[t] = "committed") =>
         \A p \in ProductRows :
           products'[p].stock =
             products[p].stock - QuantityOrdered(req[t].orderItems, p)]_vars

\* an order of one unit of product 1 and one of product 2 committed alone
C4_Witness ==
  \E t \in Txns :
    /\ pc[t] = "committed"
    /\ \A u \in Txns \ {t} : pc[u] = "idle"
    /\ Len(req[t].orderItems) = 2
    /\ products[1].stock = InitialProducts[1].stock - 1
    /\ products[2].stock = InitialProducts[2].stock - 1
    /\ products[3].stock = InitialProducts[3].stock

\* C5: with order creation alone, for every product the committed stock plus
\* the quantity of it over all committed order items is its initial stock.
C5_StockConservation ==
  \A p \in ProductRows :
    products[p].stock + QuantitySold(orderItems, p) = InitialProducts[p].stock

\* two calls that ran concurrently both committed and sold product 1 out
C5_Witness ==
  /\ Cardinality(DOMAIN orders) >= 2
  /\ products[1].stock = 0
  /\ QuantitySold(orderItems, 1) = InitialProducts[1].stock

\* C6: the persisted total of every order is within 0.01 (one cent) of the
\* sum of the persisted total prices of its items.
C6_TotalWithinOneCent ==
  \A id \in DOMAIN orders :
    Abs(orders[id].totalAmount - ItemTotals(orderItems, id)) <= 1

\* an order whose persisted total is one cent above the sum of its items
C6_Witness ==
  \E id \in DOMAIN orders :
    orders[id].totalAmount = ItemTotals(orderItems, id) + 1

\* C7: the persisted total of every order equals the sum of the persisted
\* total prices of its items exactly.
C7_TotalEqualsItemSum ==
  \A id \in DOMAIN orders :
    orders[id].totalAmount = ItemTotals(orderItems, id)

\* the three tokens of request r are present and pass their validators at
\* time at
TokensPass(r, at) ==
  /\ r.verifiedLocationId # Undefined
  /\ r.inventoryReservationId # Undefined
  /\ r.paymentTransactionId # Undefined
  /\ validateLocationVerification(r.verifiedLocationId, at).valid
  /\ validateInventoryReservation(r.inventoryReservationId, at).valid
  /\ validatePaymentTransaction(r.paymentTransactionId, at).valid

\* C8: an orders row, committed or still inside its transaction, exists only
\* for a call whose three tokens were present and passed their validators at
\* the time of the call.
C8_OrderOnlyWithValidTokens ==
  \A t \in Txns :
    (t \in DOMAIN orders \/ txOrder[t] # NoOrder) =>
      TokensPass(req[t], calledAt[t])

\* an order was created with an inventory token that was in its window at the
\* call and has left it since
C8_Witness ==
  /\ 1 \in DOMAIN orders
  /\ TokensPass(req[1], calledAt[1])
  /\ ~validateInventoryReservation(req[1].inventoryReservationId, now).valid

\* C9: no two created orders were created with the same location, inventory
\* reservation or payment transaction token.
C9_TokensNeverReused ==
  \A t \in DOMAIN orders, u \in DOMAIN orders :
    t # u =>
      /\ req[t].verifiedLocationId # req[u].verifiedLocationId
      /\ req[t].inventoryReservationId # req[u].inventoryReservationId
      /\ req[t].paymentTransactionId # req[u].paymentTransactionId

\* PREFIX, "_", 8 digits, "_", 6 digits, "_", 8 upper-case hex characters
HasShape(prefix, id) ==
  /\ Len(id) = 3 + 1 + 8 + 1 + 6 + 1 + 8
  /\ SubSeq(id, 1, 4) = prefix \o <<"_">>
  /\ {id[i] : i \in 5..12} \subseteq Digit
  /\ <<id[13], id[20]>> = <<"_", "_">>
  /\ {id[i] : i \in 14..19} \subseteq Digit
  /\ {id[i] : i \in 21..28} \subseteq UpperHex

\* the time since the timestamp embedded in id is more than window seconds
\* (digits that are no date and time have no elapsed time)
OlderThan(id, at, window) ==
  LET stamp == DateGetTime(SubSeq(id, 5, 12), SubSeq(id, 14, 19))
  IN  stamp # NaN /\ at - stamp[1] > window

\* C10: each validator answers valid exactly when the id has the shape with
\* the validator's own prefix and the time since its embedded timestamp is
\* not more than 24 hours (location), 60 minutes (inventory reservation),
\* 120 minutes (payment transaction).
C10_ValidIffShapeAndFresh ==
  validation # NoValidation =>
    LET prefix == CASE validation.kind = "location" -> LOC
                    [] validation.kind = "inventory" -> INV
                    [] validation.kind = "payment" -> TXN
        window == CASE validation.kind = "location" -> 24 * 60 * 60
                    [] validation.kind = "inventory" -> 60 * 60
                    [] validation.kind = "payment" -> 120 * 60
    IN  validation.result.valid <=>
          /\ HasShape(prefix, validation.id)
          /\ ~OlderThan(validation.id, validation.at, window)

\* the inventory validator rejected, one second past the hour, an id it had
\* room for at the hour
C10_Witness ==
  /\ validation # NoValidation
  /\ validation.kind = "inventory"
  /\ validation.id = MakeId(INV, <<2025, 1, 2>>, <<11, 0, 0>>, HashOk)
  /\ validation.at = StartTime + 1
  /\ ~validation.result.valid

\* the reason each validator gives for an id that misses its pattern
FormatReason(kind) ==
  CASE kind = "location" -> "Invalid location verification ID format"
    [] kind = "inventory" -> "Invalid inventory reservation ID format"
    [] kind = "payment" -> "Invalid payment transaction ID format"

\* the reason each validator gives for an id older than its window
ExpiryReason(kind) ==
  CASE kind = "location" -> "Location verification expired (older than 24 hours)"
    [] kind = "inventory" -> "Inventory reservation expired (older than 1 hour)"
    [] kind = "payment" -> "Payment transaction expired (older than 2 hours)"

KindPrefix(kind) ==
  CASE kind = "location" -> LOC [] kind = "inventory" -> INV
    [] kind = "payment" -> TXN

KindWindow(kind) ==
  CASE kind = "location" -> 24 * 60 * 60 [] kind = "inventory" -> 60 * 60
    [] kind = "payment" -> 120 * 60

\* C11: a validator rejects an id that misses its pattern with its format
\* reason and a well-formed id older than its window with its expiry reason,
\* and for every kind the two reasons are different.
C11_FormatAndExpiryReasonsDiffer ==
  validation # NoValidation =>
    LET kind == validation.kind
        shaped == HasShape(KindPrefix(kind), validation.id)
        old == OlderThan(validation.id, validation.at, KindWindow(kind))
    IN  /\ ~shaped =>
             /\ ~validation.result.valid
             /\ validation.result.reason = FormatReason(kind)
             /\ validation.result.reason # ExpiryReason(kind)
        /\ (shaped /\ old) =>
             /\ ~validation.result.valid
             /\ validation.result.reason = ExpiryReason(kind)
             /\ validation.result.reason # FormatReason(kind)

\* the location validator rejected a token stamped 25 hours in the past as
\* expired
C11_Witness ==
  /\ validation # NoValidation
  /\ validation.kind = "location"
  /\ validation.id = MakeId(LOC, <<2025, 1, 1>>, <<11, 0, 0>>, HashOk)
  /\ validation.at = StartTime
  /\ validation.result = Invalid(ExpiryReason("location"))

\* the context has what the required-fields check asks for
RequiredFieldsGiven(context) ==
  context.customer /\ context.itemsGiven /\ context.totalAmount # 0

TokensOf(context) ==
  {context.verifiedLocationId, context.inventoryReservationId,
   context.paymentTransactionId}

\* the three tokens are present and at least one of them fails its validator
SomeTokenInvalid(context, at) ==
  /\ Undefined \notin TokensOf(context)
  /\ \/ ~validateLocationVerification(context.verifiedLocationId, at).valid
     \/ ~validateInventoryReservation(context.inventoryReservationId, at).valid
     \/ ~validatePaymentTransaction(context.paymentTransactionId, at).valid

\* C12: a create_order request through the tool that has the required
\* fields but lacks one of the three tokens fails with the
\* missing-precondition result, and that result differs from the result of
\* every request whose tokens are present but malformed or expired; no
\* products, orders or order_items row changes.
C12_MissingTokenIsDistinctFailure ==
  (/\ toolResult # NoToolCall
   /\ RequiredFieldsGiven(toolResult.context)
   /\ Undefined \in TokensOf(toolResult.context)) =>
    /\ ~toolResult.result.success
    /\ toolResult.result.message = "OPERATIONAL PRECONDITIONS FAILED"
    /\ \A other \in ToolContexts :
         (RequiredFieldsGiven(other) /\ SomeTokenInvalid(other, now)) =>
           CreateOrderCase(other) # toolResult.result
    /\ products = InitialProducts
    /\ orders = << >>
    /\ orderItems = << >>

\* the first check, in the order tokens present, tokens valid, items,
\* total, that the context violates
EarliestViolatedCheck(context, at) ==
  IF Undefined \in TokensOf(context) THEN "tokens present"
  ELSE IF SomeTokenInvalid(context, at) THEN "tokens valid"
  ELSE IF \/ ~context.itemsGiven
          \/ context.orderItems = << >>
          \/ \E i \in 1..Len(context.orderItems) :
               \/ context.orderItems[i].productId <= 0
               \/ context.orderItems[i].quantity <= 0
               \/ context.orderItems[i].unitPrice <= 0
  THEN "items"
  ELSE IF context.totalAmount <= 0 \/ context.totalAmount > 1000000 * 1000
  THEN "total"
  ELSE "none"

\* the check a tool result reports as failed
ReportedCheck(result) ==
  IF result.success THEN "none"
  ELSE IF result.message = "OPERATIONAL PRECONDITIONS FAILED"
  THEN "tokens present"
  ELSE IF result.detail \in
            {FormatReason(k) : k \in {"location", "inventory", "payment"}}
            \cup {ExpiryReason(k) : k \in {"location", "inventory", "payment"}}
  THEN "tokens valid"
  ELSE IF result.message \in {"Order must contain at least one item",
                              "Invalid product ID", "Invalid quantity",
                              "Invalid unit price"}
  THEN "items"
  ELSE IF result.message \in {"Invalid total amount", "Total amount too large"}
  THEN "total"
  ELSE "other"

\* C13: a create_order request through the tool that violates several of
\* the checks reports the earliest violated one in the order tokens present,
\* tokens valid, items, total; in particular an expired token together with
\* an empty item list or a non-positive total reports the token failure.
C13_EarliestViolatedCheckReported ==
  (/\ toolResult # NoToolCall
   /\ toolResult.context.customer
   /\ toolResult.context.itemsGiven
   /\ EarliestViolatedCheck(toolResult.context, now) # "none") =>
    ReportedCheck(toolResult.result) =
      EarliestViolatedCheck(toolResult.context, now)

\* the sum over the line items of quantity x database price, in mills
RECURSIVE DatabaseTotal(_)
DatabaseTotal(items) ==
  IF items = << >> THEN 0
  ELSE DatabaseTotal(SubSeq(items, 1, Len(items) - 1))
       + items[Len(items)].quantity
         * parseFloat(products[items[Len(items)].productId].price)

\* C14: when a createOrder call reaches the total check and the sum of
\* quantity x database price differs from the declared total by more than
\* 0.01, the call fails with the total-mismatch error naming the calculated
\* and the provided total, no stock changes and no order is created;
\* otherwise it goes on.
C14_TotalMismatchFails ==
  [][\A t \in Txns :
       (pc[t] = "insert" /\ StepOfCall(t)) =>
         LET calculated == DatabaseTotal(req[t].orderItems)
             provided == req[t].totalAmount
         IN  IF Abs(calculated - provided) > 10
             THEN /\ pc'[t] = "failed"
                  /\ error'[t].kind = "Total amount mismatch"
                  /\ error'[t].args = <<calculated, provided>>
                  /\ products' = products
                  /\ orders' = orders
                  /\ orderItems' = orderItems
                  /\ txOrder'[t] = NoOrder
             ELSE pc'[t] = "update"]_vars

\* a call for 2 of product 1 declaring 25.00 failed naming 20.00 and 25.00
\* and left the stock of product 1 as it was
C14_Witness ==
  \E t \in Txns :
    /\ pc[t] = "failed"
    /\ error[t].kind = "Total amount mismatch"
    /\ error[t].args = <<20000, 25000>>
    /\ products[1].stock = InitialProducts[1].stock
    /\ t \notin DOMAIN orders

\* two requests that differ at most in the unit prices they declare
SameButUnitPrices(r1, r2) ==
  /\ r1 # NoRequest
  /\ r2 # NoRequest
  /\ r1.totalAmount = r2.totalAmount
  /\ r1.verifiedLocationId = r2.verifiedLocationId
  /\ r1.inventoryReservationId = r2.inventoryReservationId
  /\ r1.paymentTransactionId = r2.paymentTransactionId
  /\ r1.logger = r2.logger
  /\ Len(r1.orderItems) = Len(r2.orderItems)
  /\ \A i \in 1..Len(r1.orderItems) :
       /\ r1.orderItems[i].productId = r2.orderItems[i].productId
       /\ r1.orderItems[i].quantity = r2.orderItems[i].quantity

\* the call is over and its outcome did not hang on the stock or the locks
\* another call left behind
OutcomeOfRequestAlone(t) ==
  \/ pc[t] = "committed"
  \/ /\ pc[t] = "failed"
     /\ error[t].kind \in {"OPERATIONAL PRECONDITION FAILED", "TypeError",
                           "Product not found", "Product is not available",
                           "Total amount mismatch"}

\* the persisted rows of order id, without the order's id
PersistedRows(id) ==
  LET OfOrder(row) == row.orderId = id
      mine == SelectSeq(orderItems, OfOrder)
  IN  [i \in 1..Len(mine) |->
         <<mine[i].productId, mine[i].quantity, mine[i].unitPrice,
           mine[i].totalPrice>>]

RoundTripContext ==
  Context(TRUE, TRUE, <<Item(1, 2, 10000)>>, 20000,
          FreshId(LOC), FreshId(INV), FreshId(TXN))

\* C16: the round-trip request made through the tool succeeds: an order
\* with total 20.00 and one item with total price 20.00 is persisted and the
\* stock of product 1 is 2 less than before.
C16_ToolRoundTripSucceeds ==
  (toolResult # NoToolCall /\ toolResult.context = RoundTripContext) =>
    /\ toolResult.result.success
    /\ products[1].stock = InitialProducts[1].stock - 2
    /\ \E id \in DOMAIN orders :
         /\ orders[id].totalAmount = 2000
         /\ PersistedRows(id) = <<<<1, 2, 1000, 2000>>>>

\* the status transition table: the statuses an order may move to from s
TransitionTable(s) ==
  CASE s = "placed" -> {"received", "cancelled"}
    [] s = "received" -> {"in_progress", "cancelled"}
    [] s = "in_progress" -> {"out_for_delivery", "cancelled"}
    [] s = "out_for_delivery" -> {"delivered", "cancelled"}
    [] s = "delivered" -> {}
    [] s = "cancelled" -> {}

\* C17: whatever the entry point, the status of an order only ever changes
\* along the transition table: a request for a move that is not in the
\* table leaves the status as it was.
C17_OnlyTableTransitions ==
  [][\A id \in DOMAIN orders :
       orders'[id].status # orders[id].status =>
         orders'[id].status \in TransitionTable(orders[id].status)]_vars

\* C18: an order that is delivered or cancelled keeps that status, also
\* when updateOrderStatusAdmin calls on it interleave.
C18_FinalStatusNeverChanges ==
  [][\A id \in DOMAIN orders :
       orders[id].status \in {"delivered", "cancelled"} =>
         orders'[id].status = orders[id].status]_vars

\* caller a's update_status call reads order id now and asks for a status
\* that the table does not allow from the order's current status
RejectedRead(a, id) ==
  /\ admin[a].pc = "read"
  /\ admin'[a] # admin[a]
  /\ admin[a].kind = "update_status"
  /\ admin[a].orderIds[admin[a].pos] = id
  /\ id \in DOMAIN orders
  /\ admin[a].newStatus \notin TransitionTable(orders[id].status)

\* C19: an updateOrderStatusAdmin call for a status the order's current
\* status does not allow fails with the invalid-transition error, the error
\* names exactly the statuses the table allows from the current status, and
\* the order's status, notes and updatedAt stay as they were.
C19_InvalidTransitionRejected ==
  [][\A a \in AdminCalls, id \in DOMAIN orders :
       RejectedRead(a, id) =>
         /\ ~statusResult'.success
         /\ statusResult'.error.kind = "Invalid status transition"
         /\ statusResult'.error.args[1] = orders[id].status
         /\ statusResult'.error.args[2] = admin[a].newStatus
         /\ LET named == statusResult'.error.args[3]
            IN  {named[i] : i \in 1..Len(named)} =
                  TransitionTable(orders[id].status)
         /\ orders'[id].status = orders[id].status
         /\ orders'[id].notes = orders[id].notes
         /\ orders'[id].updatedAt = orders[id].updatedAt]_vars

\* a call asking to deliver a received order, whose notes hold an admin log
\* line and whose last update is in the past, was rejected naming
\* in_progress and cancelled
C19_Witness ==
  /\ statusResult # NoStatusUpdate
  /\ statusResult.error.kind = "Invalid status transition"
  /\ statusResult.error.args =
       <<"received", "delivered", <<"in_progress", "cancelled">>>>
  /\ 1 \in DOMAIN orders
  /\ orders[1].status = "received"
  /\ orders[1].notes # << >>
  /\ orders[1].updatedAt < now

\* C20: every status update that succeeded hands back, for each order whose
\* status it set, a customer notification for the new status addressed to
\* the order's customer.
C20_StatusChangeNotifiesCustomer ==
  (statusResult # NoStatusUpdate /\ statusResult.success) =>
    \A change \in statusResult.changed :
      \E n \in statusResult.notifications :
        /\ n.orderId = change[1]
        /\ n.status = change[2]
        /\ n.chat_id = orders[change[1]].telegramUserId

\* the step is an update_status call of the tool whose notification threw
\* after the UPDATE
NotificationFailed ==
  /\ logged' # NoLog
  /\ statusResult'.entry = "tool"
  /\ (logged' # logged \/ statusResult' # statusResult)

\* C21: when the notification fails after updateOrderStatus has persisted
\* the new status, the status stays persisted, the call answers success with
\* the updated order, and the answer carries a report of the notification
\* failure next to that success.
C21_NotificationFailureReported ==
  [][NotificationFailed =>
       /\ orders'[logged'.orderId].status = logged'.newStatus
       /\ statusResult'.success
       /\ statusResult'.changed = {<<logged'.orderId, logged'.newStatus>>}
       /\ statusResult'.error # NoFailure]_vars

\* the part of C21 the code keeps: the status stays persisted and the call
\* answers success
C21_StatusChangeSurvives ==
  [][NotificationFailed =>
       /\ orders'[logged'.orderId].status = logged'.newStatus
       /\ statusResult'.success
       /\ statusResult'.changed = {<<logged'.orderId, logged'.newStatus>>}]_vars

\* C22: an order's notes only grow: whatever a status update does, every
\* entry the notes held before it is still in the notes after it.
C22_NotesAppendOnly ==
  [][\A id \in DOMAIN orders :
       \A i \in 1..Len(orders[id].notes) :
         includes(orders'[id].notes, orders[id].notes[i])]_vars

\* the bulk call of admin caller 1 as the next state has it: still going on,
\* or answered
BulkFailedAfter ==
  IF admin'[1] = NoAdminCall THEN statusResult'.failed ELSE admin'[1].failed

BulkSuccessfulAfter ==
  IF admin'[1] = NoAdminCall
  THEN statusResult'.successful
  ELSE admin'[1].successful

\* after the order in hand the bulk call takes the next id of its list, or
\* answers with a summary that counts every id once
BulkContinues(call) ==
  IF call.pos < Len(call.orderIds)
  THEN /\ admin'[1] # NoAdminCall
       /\ admin'[1].pc = "read"
       /\ admin'[1].pos = call.pos + 1
       /\ admin'[1].orderIds = call.orderIds
  ELSE /\ admin'[1] = NoAdminCall
       /\ statusResult'.entry = "bulk"
       /\ statusResult'.success
       /\ statusResult'.summary.total = Len(call.orderIds)
       /\ statusResult'.summary.successCount = Len(statusResult'.successful)
       /\ statusResult'.summary.failureCount = Len(statusResult'.failed)
       /\ statusResult'.summary.successCount
            + statusResult'.summary.failureCount = Len(call.orderIds)

\* C23: bulkUpdateOrderStatus takes the ids in list order and applies the
\* transition table to each: an id that names no order, or whose order may
\* not take the new status, is added to the failed list, leaves every order
\* untouched, and the batch goes on; every other id has its order set to the
\* new status and is added to the successful list; the answer's
\* successCount and failureCount add up to the number of ids.
C23_BulkUpdatesEachIdIndependently ==
  [][(admin[1] # NoAdminCall /\ admin[1].kind = "bulk_update_status"
        /\ admin'[1] # admin[1]) =>
       LET call == admin[1]
           id == call.orderIds[call.pos]
           allowed ==
             /\ id \in DOMAIN orders
             /\ includes(VALID_STATUS_TRANSITIONS[orders[id].status],
                         call.newStatus)
       IN  IF call.pc = "read" /\ ~allowed
           THEN /\ orders' = orders
                /\ Len(BulkFailedAfter) = Len(call.failed) + 1
                /\ SubSeq(BulkFailedAfter, 1, Len(call.failed)) = call.failed
                /\ BulkFailedAfter[Len(BulkFailedAfter)].orderId = id
                /\ BulkSuccessfulAfter = call.successful
                /\ BulkContinues(call)
           ELSE IF call.pc = "read"
           THEN /\ orders' = orders
                /\ admin'[1].pc = "write"
                /\ admin'[1].pos = call.pos
           ELSE /\ orders'[id].status = call.newStatus
                /\ \A other \in DOMAIN orders \ {id} :
                     orders'[other] = orders[other]
                /\ BulkSuccessfulAfter =
                     Append(call.successful,
                            [orderId |-> id, status |-> call.newStatus])
                /\ BulkFailedAfter = call.failed
                /\ BulkContinues(call)]_vars

\* a bulk update of three ids answered with two updated and one failed,
\* the failed one in the middle of the list
C23_Witness ==
  /\ statusResult # NoStatusUpdate
  /\ statusResult.entry = "bulk"
  /\ statusResult.summary =
       [total |-> 3, successCount |-> 2, failureCount |-> 1]
  /\ statusResult.failed[1].orderId = 9
  /\ statusResult.successful[1].orderId = 1
  /\ statusResult.successful[2].orderId = 2
  /\ orders[1].status = "cancelled"
  /\ orders[2].status = "cancelled"

\* C24: for an order that exists, the validNextStatuses getAdminOrderDetails
\* reports are exactly the statuses an updateOrderStatusAdmin call made in
\* the same state goes on to write (every other status is refused with the
\* invalid-transition error), and canUpdate is false exactly for a delivered
\* or cancelled order.
C24_DetailsAgreeWithEngine ==
  [][\A a \in AdminCalls :
       (/\ admin[a] # NoAdminCall
        /\ admin[a].pc = "read"
        /\ admin'[a] # admin[a]
        /\ admin[a].orderIds[admin[a].pos] \in DOMAIN orders) =>
         LET call == admin[a]
             details == getAdminOrderDetails(call.orderIds[call.pos])
             offered == includes(details.validNextStatuses, call.newStatus)
         IN  /\ offered <=> (admin'[a] # NoAdminCall /\ admin'[a].pc = "write")
             /\ ~offered <=>
                  (/\ admin'[a] = NoAdminCall
                   /\ ~statusResult'.success
                   /\ statusResult'.error.kind = "Invalid status transition")
             /\ ~details.canUpdate <=>
                  details.status \in {"delivered", "cancelled"}]_vars

\* an update the details did not offer was refused: the order is delivered,
\* the details say it cannot be updated, and the call was answered with the
\* invalid-transition error
C24_Witness ==
  /\ 1 \in DOMAIN orders
  /\ orders[1].status = "delivered"
  /\ ~getAdminOrderDetails(1).canUpdate
  /\ statusResult # NoStatusUpdate
  /\ statusResult.entry = "admin"
  /\ ~statusResult.success
  /\ statusResult.error.kind = "Invalid status transition"

\* C25: an admin stock-set and a createOrder transaction on the same product
\* take their turns through the row lock: from the locked read to the commit
\* or rollback the committed stock stays what the transaction read, a
\* stock-set changes only a row no transaction holds, and the commit leaves
\* the stock it found minus the quantity ordered; so the final stock is that
\* of the set and the order run one after the other.
C25_StockSetSerializesWithOrder ==
  [][/\ \A t \in Txns :
          \A i \in DOMAIN productValidation'[t] :
            products'[productValidation'[t][i].id].stock =
              productValidation'[t][i].stock
     /\ \A p \in ProductRows :
          products'[p].stock # products[p].stock =>
            \/ rowLock[p] = NoTxn
            \/ \E t \in Txns :
                 /\ rowLock[p] = t
                 /\ pc[t] = "commit"
                 /\ pc'[t] = "committed"
                 /\ products'[p].stock =
                      products[p].stock
                        - QuantityOrdered(req[t].orderItems, p)]_vars

\* a stock-set took effect first (no order is committed, yet product 1 has
\* one unit), and a transaction that read that unit under lock is about to
\* commit while it holds the row
C25_Witness ==
  \E t \in Txns :
    /\ orders = << >>
    /\ products[1].stock = 1
    /\ rowLock[1] = t
    /\ pc[t] = "commit"
    /\ productValidation[t][1].id = 1
    /\ productValidation[t][1].stock = 1

\* C26: every id generateTransactionId issues has the shape
\* TXN_YYYYMMDD_HHMMSS_8HEX that validatePaymentTransaction accepts, and the
\* validator accepts it at every instant up to 120 minutes after it was
\* issued.
C26_IssuedTransactionIdAccepted ==
  (issued # NoAnswer /\ issued.kind = "payment") =>
    /\ IdPatternTest(TXN, issued.token)
    /\ (now - issued.at <= PaymentMaxAge =>
          validatePaymentTransaction(issued.token, now).valid)

\* C27: a location verification that finds the address inside the delivery
\* area answers with a LOC token, a stock check that finds the product
\* available answers with an INV token, and createOrder's validator accepts
\* each token while it is fresh; a verification that fails answers with no
\* token.
C27_VerificationIssuesToken ==
  (issued # NoAnswer /\ issued.kind \in {"location", "inventory"}) =>
    IF issued.success
    THEN /\ issued.token # Undefined
         /\ issued.kind = "location" =>
              (now - issued.at <= LocationMaxAge =>
                 validateLocationVerification(issued.token, now).valid)
         /\ issued.kind = "inventory" =>
              (now - issued.at <= InventoryMaxAge =>
                 validateInventoryReservation(issued.token, now).valid)
    ELSE issued.token = Undefined

\* C28: every persisted order item carries the catalog price of its product
\* as unit price (the price the transaction read under lock) and quantity
\* times that unit price as total; and whatever happens afterwards (status
\* updates, stock edits, later orders), no field of an existing order item
\* changes.
C28_OrderItemsPricedOnceAndFrozen ==
  [][/\ \A i \in 1..Len(orderItems') :
          /\ orderItems'[i].unitPrice =
               InitialProducts[orderItems'[i].productId].price
          /\ orderItems'[i].unitPrice = products'[orderItems'[i].productId].price
          /\ orderItems'[i].totalPrice =
               orderItems'[i].quantity * orderItems'[i].unitPrice
     /\ Len(orderItems') >= Len(orderItems)
     /\ \A i \in 1..Len(orderItems) : orderItems'[i] = orderItems[i]]_vars

\* the items of two orders, one of them declared below the catalog price,
\* after a status update of an order and an admin stock edit that put
\* product 1 back to its initial stock
C28_Witness ==
  /\ Len(orderItems) = 3
  /\ \E i \in 1..Len(orderItems) :
       /\ orderItems[i].productId = 1
       /\ orderItems[i].unitPrice = 1000
       /\ req[orderItems[i].orderId].orderItems[1].unitPrice = 9000
  /\ \E id \in DOMAIN orders : orders[id].status = "received"
  /\ products[1].stock = InitialProducts[1].stock

\* the order_items rows of order id among rows
RowsOfOrder(rows, id) ==
  LET OfOrder(row) == row.orderId = id IN SelectSeq(rows, OfOrder)

\* C29: the step that makes an order visible shows it with status placed and
\* payment status pending, and shows with it all of its items, one per line
\* of the request, none of which was visible before; and no order item is
\* ever visible without its order.
C29_OrderVisibleWithItemsAsPlaced ==
  [][/\ \A id \in DOMAIN orders' \ DOMAIN orders :
          /\ orders'[id].status = "placed"
          /\ orders'[id].paymentStatus = "pending"
          /\ RowsOfOrder(orderItems, id) = << >>
          /\ Len(RowsOfOrder(orderItems', id)) = Len(req[id].orderItems)
          /\ \A i \in 1..Len(req[id].orderItems) :
               /\ RowsOfOrder(orderItems', id)[i].productId =
                    req[id].orderItems[i].productId
               /\ RowsOfOrder(orderItems', id)[i].quantity =
                    req[id].orderItems[i].quantity
     /\ \A i \in 1..Len(orderItems') :
          orderItems'[i].orderId \in DOMAIN orders']_vars

\* an order of two lines is visible as placed and pending with both its
\* items while the other call is still inside its transaction
C29_Witness ==
  \E id \in DOMAIN orders :
    /\ orders[id].status = "placed"
    /\ orders[id].paymentStatus = "pending"
    /\ Len(RowsOfOrder(orderItems, id)) = 2
    /\ \E t \in Txns \ {id} : pc[t] \in {"select", "insert", "update", "commit"}

\* the call ended with the gate's failure for an expired token
RejectedAsExpired(err) ==
  /\ err.kind = "OPERATIONAL PRECONDITION FAILED"
  /\ err.reason \in {ExpiryReason(kind) :
                       kind \in {"location", "inventory", "payment"}}

\* the place of the expired token's check in the gate
GateOrder(reason) ==
  CASE reason = ExpiryReason("location") -> 1
    [] reason = ExpiryReason("inventory") -> 2
    [] reason = ExpiryReason("payment") -> 3

\* call u is made in this step with the request of call t, which the gate
\* rejected for an expired token
Resubmission(t, u) ==
  /\ t # u
  /\ pc[t] = "failed"
  /\ RejectedAsExpired(error[t])
  /\ pc[u] = "idle"
  /\ pc'[u] # "idle"
  /\ req'[u] = req[t]

\* C30 as stated: a request rejected for an expired token, made again with
\* the same tokens at any later time, is rejected again with the same
\* expiry reason, and no attempt creates an order or changes any stock.
C30_ResubmissionSameExpiryReason ==
  [][\A t \in Txns, u \in Txns :
       Resubmission(t, u) =>
         /\ pc'[u] = "failed"
         /\ error'[u] = error[t]
         /\ UNCHANGED <<orders, orderItems, products>>]_vars

\* C30, amended: the request made again is rejected again for an expired
\* token, with the reason of the first expired token in the gate's order
\* (location, inventory, payment): the same reason as before, or that of a
\* token checked earlier which has expired since; no attempt creates an
\* order or changes any stock.
C30_ResubmissionRejectedAsExpired ==
  [][/\ \A t \in Txns, u \in Txns :
          Resubmission(t, u) =>
            /\ pc'[u] = "failed"
            /\ RejectedAsExpired(error'[u])
            /\ GateOrder(error'[u].reason) <= GateOrder(error[t].reason)
     /\ \A u \in Txns :
          (pc[u] = "idle" /\ pc'[u] = "failed"
             /\ RejectedAsExpired(error'[u])) =>
            UNCHANGED <<orders, orderItems, products, txOrder, txStock>>]_vars

\* a request was rejected for its expired inventory reservation and, made
\* again a second later, for its location verification, which had expired
\* by then; an order of another request exists, the stock is what that
\* order left
C30_Witness ==
  \E t \in Txns, u \in Txns :
    /\ pc[t] = "failed"
    /\ pc[u] = "failed"
    /\ req[t] = req[u]
    /\ calledAt[t] < calledAt[u]
    /\ error[t].reason = ExpiryReason("inventory")
    /\ error[u].reason = ExpiryReason("location")

\* a request was rejected twice, a second apart, for the same expired
\* inventory reservation
C30_SameReasonWitness ==
  \E t \in Txns, u \in Txns :
    /\ pc[t] = "failed"
    /\ pc[u] = "failed"
    /\ req[t] = req[u]
    /\ calledAt[t] < calledAt[u]
    /\ error[t].reason = ExpiryReason("inventory")
    /\ error[u] = error[t]
    /\ orders = << >>
    /\ products = InitialProducts

\* what the checks of the line item in hand must answer, from the committed
\* row of its product: not found, not available, insufficient stock
ExpectedItemError(item) ==
  IF item.productId \notin ProductRows
  THEN Error("Product not found", "", <<item.productId>>)
  ELSE IF ~products[item.productId].isActive
  THEN Error("Product is not available", "", <<item.productId>>)
  ELSE IF products[item.productId].stock < item.quantity
  THEN Error("Insufficient stock", "",
             <<item.productId, products[item.productId].stock, item.quantity>>)
  ELSE NoFailure

\* C31: the transaction examines the line items in list order; for the item
\* in hand a missing product fails with not found, else an inactive one with
\* not available, else stock below the quantity with insufficient stock
\* naming the available and the requested quantity; the first failing check
\* of the first failing item is the call's error; and the order row, the
\* item rows and the stock decrements are written only after every item has
\* passed and the total check has passed.
C31_ChecksInOrderBeforeAnyWrite ==
  [][\A t \in Txns :
       /\ (pc[t] = "select" /\ StepOfCall(t)
             /\ error'[t].kind # "deadlock detected") =>
            LET item == req[t].orderItems[idx[t]]
                expected == ExpectedItemError(item)
            IN  IF expected # NoFailure
                THEN pc'[t] = "failed" /\ error'[t] = expected
                ELSE /\ Len(productValidation[t]) = idx[t] - 1
                     /\ IF idx[t] < Len(req[t].orderItems)
                        THEN pc'[t] = "select" /\ idx'[t] = idx[t] + 1
                        ELSE pc'[t] = "insert"
       /\ (pc'[t] \in {"select", "insert"}) =>
            (txOrder'[t] = NoOrder /\ txStock'[t] = << >>)
       /\ (txOrder[t] = NoOrder /\ txOrder'[t] # NoOrder) =>
            /\ pc[t] = "insert"
            /\ Len(productValidation[t]) = Len(req[t].orderItems)
            /\ ~TotalMismatch(SumTotal(productValidation[t]),
                              req[t].totalAmount)
       /\ txStock'[t] # << >> => txOrder'[t] # NoOrder]_vars

\* a call failed on its first line, whose stock is short, although its
\* second line names a product that does not exist; and another call failed
\* with not available on an inactive product whose stock is short as well
C31_Witness ==
  \E t \in Txns, u \in Txns :
    /\ pc[t] = "failed"
    /\ Len(req[t].orderItems) = 2
    /\ req[t].orderItems[2].productId = 4
    /\ error[t] = Error("Insufficient stock", "", <<2, 1, 2>>)
    /\ pc[u] = "failed"
    /\ req[u].orderItems[1] = Item(3, 2, 5000)
    /\ error[u] = Error("Product is not available", "", <<3>>)

\* the request names each product on at most one line
EachProductOnce(r) ==
  \A i \in 1..Len(r.orderItems), j \in 1..Len(r.orderItems) :
    r.orderItems[i].productId = r.orderItems[j].productId => i = j

\* C32: for a call whose request names each product at most once, under
\* every interleaving with other calls, each conditional stock update finds
\* exactly one row to update, and the call never ends with the zero-rows
\* consistency abort.
C32_ConditionalUpdateHitsOneRow ==
  \A t \in Txns :
    (req[t] # NoRequest /\ EachProductOnce(req[t])) =>
      /\ error[t].kind # "CRITICAL: Failed to update stock"
      /\ pc[t] = "update" =>
           Cardinality(StockUpdateRows(t, req[t].orderItems[idx[t]].productId,
                                       req[t].orderItems[idx[t]].quantity)) = 1

\* a call that took the last unit of product 2 and holds its row is at its
\* stock updates while another call for the same product waits for the row
C32_Witness ==
  \E t \in Txns, u \in Txns :
    /\ pc[t] = "update"
    /\ EachProductOnce(req[t])
    /\ Len(req[t].orderItems) = 2
    /\ rowLock[2] = t
    /\ products[2].stock = 1
    /\ WaitsFor(u) = t
    /\ req[u].orderItems[idx[u]].productId = 2

\* C33: every createOrder call that was made eventually finishes, by commit
\* or by rollback, whatever the other calls do, also when two calls ask for
\* the row locks of the same two products in opposite order.
C33_EveryCallFinishes ==
  \A t \in Txns : (pc[t] # "idle") ~> Finished(t)

\* two calls named products 1 and 2 in opposite order: the database aborted
\* one of them for the deadlock and the other committed
C33_Witness ==
  \E t \in Txns, u \in Txns :
    /\ pc[t] = "failed"
    /\ error[t].kind = "deadlock detected"
    /\ pc[u] = "committed"
    /\ req[t].orderItems[1].productId = req[u].orderItems[2].productId
    /\ req[t].orderItems[2].productId = req[u].orderItems[1].productId

\* C34: a call whose request names a product on more than one line commits
\* only if, for every product, the stock is at least the sum of the
\* quantities of the lines that name it, and the commit takes that sum; if
\* the call fails instead, every product's stock is what it was.
C34_RepeatedProductNeedsSummedStock ==
  [][\A t \in Txns :
       (pc'[t] # pc[t] /\ ~EachProductOnce(req'[t])) =>
         /\ pc'[t] = "committed" =>
              \A p \in ProductRows :
                /\ products[p].stock >= QuantityOrdered(req[t].orderItems, p)
                /\ products'[p].stock =
                     products[p].stock - QuantityOrdered(req[t].orderItems, p)
         /\ pc'[t] = "failed" => products' = products]_vars

\* of two calls that name product 1 (stock 2) on two lines, the one asking
\* for 1 + 2 units was rolled back at its second stock update, and the one
\* asking for 1 + 1 units committed afterwards and took both units
C34_Witness ==
  \E t \in Txns, u \in Txns :
    /\ pc[t] = "failed"
    /\ error[t].kind = "CRITICAL: Failed to update stock"
    /\ QuantityOrdered(req[t].orderItems, 1) = 3
    /\ pc[u] = "committed"
    /\ Len(req[u].orderItems) = 2
    /\ QuantityOrdered(req[u].orderItems, 1) = 2
    /\ products[1].stock = 0

\* the digits of a well-formed id denote a day of the calendar and a time
\* of the day
RealTimestamp(id) ==
  LET y  == DigitsToNumber(substring(id, 4, 8))
      mo == DigitsToNumber(substring(id, 8, 10))
      d  == DigitsToNumber(substring(id, 10, 12))
      h  == DigitsToNumber(substring(id, 13, 15))
      mi == DigitsToNumber(substring(id, 15, 17))
      sc == DigitsToNumber(substring(id, 17, 19))
      leap == (y % 4 = 0 /\ y % 100 # 0) \/ y % 400 = 0
      daysInMonth ==
        IF mo = 2 THEN (IF leap THEN 29 ELSE 28)
        ELSE IF mo \in {4, 6, 9, 11} THEN 30 ELSE 31
  IN  /\ mo \in 1..12
      /\ d \in 1..daysInMonth
      /\ h \in 0..23
      /\ mi \in 0..59
      /\ sc \in 0..59

\* C35: a validator accepts an id only if the id's date and time denote a
\* real calendar timestamp that is not later than the time of the call; so
\* a well-formed id stamped in the future, or with an impossible date or
\* time, is rejected by each of the three validators.
C35_OnlyRealPastTimestampsAccepted ==
  (validation # NoValidation /\ validation.result.valid) =>
    /\ RealTimestamp(validation.id)
    /\ DateGetTime(substring(validation.id, 4, 12),
                   substring(validation.id, 13, 19))[1] <= validation.at

\* C36: a status update changes, of the one order it names, only status,
\* notes and updatedAt; the order's payment status and total, the order
\* items, every other order and every product's stock are as before; a
\* cancelled order's quantities do not go back to stock.
C36_StatusUpdateTouchesOnlyStatusFields ==
  [][(DOMAIN orders' = DOMAIN orders /\ orders' # orders) =>
       /\ Cardinality({id \in DOMAIN orders : orders'[id] # orders[id]}) = 1
       /\ \A id \in DOMAIN orders :
            orders'[id] = [orders[id] EXCEPT !.status = orders'[id].status,
                                            !.notes = orders'[id].notes,
                                            !.updatedAt = orders'[id].updatedAt]
       /\ orderItems' = orderItems
       /\ products' = products]_vars

\* the only order, one unit of product 1, was cancelled: it is still
\* pending payment with its total and its item, and the unit it took is
\* still missing from the stock
C36_Witness ==
  /\ DOMAIN orders = {1}
  /\ orders[1].status = "cancelled"
  /\ orders[1].paymentStatus = "pending"
  /\ orders[1].totalAmount = 1000
  /\ Len(orderItems) = 1
  /\ orderItems[1].productId = 1
  /\ products[1].stock = InitialProducts[1].stock - 1
  /\ statusResult # NoStatusUpdate
  /\ statusResult.success

\* the number of transitions an order in status s can still make at most
Remaining(s) ==
  CASE s = "placed" -> 4
    [] s = "received" -> 3
    [] s = "in_progress" -> 2
    [] s = "out_for_delivery" -> 1
    [] s = "delivered" -> 0
    [] s = "cancelled" -> 0

\* C37: with the admin engine alone, one call at a time, every successful
\* status update moves the order to a status from which strictly fewer
\* transitions remain (forward along placed, received, in_progress,
\* out_for_delivery, delivered, or to cancelled), and an order starts with
\* four remaining: no status is taken twice and no order takes more than
\* four transitions.
C37_StatusOnlyMovesForward ==
  [][/\ \A a \in AdminCalls :
          (admin[a] # NoAdminCall /\ admin[a].pc = "write"
             /\ admin'[a] # admin[a]) =>
            LET id == admin[a].orderIds[admin[a].pos]
            IN  /\ orders'[id].status = admin[a].newStatus
                /\ Remaining(orders'[id].status) < Remaining(orders[id].status)
     /\ \A id \in DOMAIN orders :
          orders'[id].status # orders[id].status =>
            Remaining(orders'[id].status) < Remaining(orders[id].status)
     /\ \A id \in DOMAIN orders' \ DOMAIN orders :
          Remaining(orders'[id].status) = 4]_vars

\* the order has gone all the way: the last update, to delivered, was
\* answered with success, and the one after it was refused
C37_Witness ==
  /\ 1 \in DOMAIN orders
  /\ orders[1].status = "delivered"
  /\ statusResult # NoStatusUpdate
  /\ statusResult.entry = "admin"
  /\ ~statusResult.success
  /\ statusResult.error.kind = "Invalid status transition"
  /\ statusResult.error.args[2] = "cancelled"

(***************************************************************************)
(* Admin sessions                                                          *)
(***************************************************************************)

\* expiresAt.setHours(expiresAt.getHours() + 24), in seconds (the server's
\* zone has no clock change within the day)
SessionLifetime == 24 * 3600

\* generateToken: randomBytes(32) in hex; two characters stand for the 64
SessionTokens == { <<"a", "1">>, <<"b", "2">>, <<"c", "3">> }

\* validateCredentials against ADMIN_CREDENTIALS: the user name is admin and
\* the SHA-256 hash of the password is that of admin123
validateCredentials(username, password) ==
  /\ username = "admin"
  /\ <<"sha256", password>> = <<"sha256", "admin123">>

\* Map.set and Map.delete
MapSet(map, key, value) ==
  [k \in DOMAIN map \cup {key} |-> IF k = key THEN value ELSE map[k]]

MapDelete(map, key) == [k \in DOMAIN map \ {key} |-> map[k]]

\* createSession: a token of generateToken (32 random bytes, a value it has
\* not returned before) is stored with its expiry and returned
createSession(userId, token) ==
  /\ activeSessions' =
       MapSet(activeSessions, token,
              [userId |-> userId, expiresAt |-> now + SessionLifetime])
  /\ sessionLog' =
       MapSet(sessionLog, token, [createdAt |-> now, destroyed |-> FALSE])

\* validateSession: what it returns
validateSession_ExpiresAtDeadline(token) ==
  /\ token \in DOMAIN activeSessions
  /\ ~(now >= activeSessions[token].expiresAt)

validateSession(token) ==
  /\ token \in DOMAIN activeSessions
  /\ ~(now > activeSessions[token].expiresAt)

\* validateSession: the map it leaves, an expired session deleted
SessionsAfterValidate(token) ==
  IF token \in DOMAIN activeSessions /\ now > activeSessions[token].expiresAt
  THEN MapDelete(activeSessions, token)
  ELSE activeSessions

coreVars ==
  <<products, orders, orderItems, rowLock, pc, req, idx, productValidation,
    txOrder, txStock, error, calledAt, validation>>

\* POST login of the admin routes
LoginRoute(username, password, token) ==
  LET Answer(code, sessionToken) ==
        [route |-> "login", header |-> << >>, code |-> code,
         token |-> sessionToken, reads |-> {}, writes |-> {}, sent |-> FALSE]
  IN
  /\ IF username = "" \/ password = ""
     THEN /\ http' = Answer(400, << >>)
          /\ UNCHANGED <<activeSessions, sessionLog>>
     ELSE IF ~validateCredentials(username, password)
     THEN /\ http' = Answer(401, << >>)
          /\ UNCHANGED <<activeSessions, sessionLog>>
     ELSE /\ token \notin DOMAIN sessionLog
          /\ createSession(username, token)
          /\ http' = Answer(200, token)
  /\ UNCHANGED <<now, ticks, notification>>
  /\ UNCHANGED coreVars
  /\ UNCHANGED statusVars

\* a call of validateSession
ValidateSession(token) ==
  /\ http' = [route |-> "validateSession", token |-> token,
              result |-> validateSession(token)]
  /\ activeSessions' = SessionsAfterValidate(token)
  /\ UNCHANGED <<now, ticks, sessionLog, notification>>
  /\ UNCHANGED coreVars
  /\ UNCHANGED statusVars

\* a call of destroySession
DestroySession(token) ==
  /\ activeSessions' = MapDelete(activeSessions, token)
  /\ sessionLog' =
       [k \in DOMAIN sessionLog |->
          IF k = token THEN [sessionLog[k] EXCEPT !.destroyed = TRUE]
          ELSE sessionLog[k]]
  /\ http' = [route |-> "destroySession", token |-> token, result |-> FALSE]
  /\ UNCHANGED <<now, ticks, notification>>
  /\ UNCHANGED coreVars
  /\ UNCHANGED statusVars

\* the clock between two calls
Elapse(seconds) ==
  /\ ticks < MaxTicks
  /\ ticks' = ticks + 1
  /\ now' = now + seconds
  /\ UNCHANGED coreVars
  /\ UNCHANGED statusVars
  /\ UNCHANGED webVars

\* logins, calls of validateSession and destroySession on tokens issued
\* and not issued, the clock running by a second, a second less than the
\* session lifetime, or the lifetime itself
NextSession ==
  \/ \E password \in {"admin123", "letmein", ""}, token \in SessionTokens :
       LoginRoute("admin", password, token)
  \/ \E token \in SessionTokens : ValidateSession(token)
  \/ \E token \in SessionTokens : DestroySession(token)
  \/ \E seconds \in {1, SessionLifetime - 1, SessionLifetime} :
       Elapse(seconds)

SpecSession == Init /\ [][NextSession]_vars

\* the session of a token is live: createSession returned the token,
\* destroySession was not called on it since, and no more than 24 hours
\* have passed since
SessionLive(token) ==
  /\ token \in DOMAIN sessionLog
  /\ ~sessionLog[token].destroyed
  /\ now - sessionLog[token].createdAt <= 24 * 3600

\* C38: validateSession(token) is true exactly when createSession returned
\* the token, the token was not destroyed since and no more than 24 hours
\* have passed since its creation; and once it is false for a token that
\* was issued, it stays false
C38_SessionValidExactlyWhileLive ==
  [][/\ \A token \in SessionTokens :
          /\ validateSession(token) <=> SessionLive(token)
          /\ (token \in DOMAIN sessionLog /\ ~validateSession(token))
               => ~(validateSession(token))'
     /\ (http' # http /\ http'.route = "validateSession")
          => http'.result = SessionLive(http'.token)]_vars

\* a session found expired by validateSession, and one valid at exactly 24
\* hours
C38_Witness ==
  /\ http # NoAnswer
  /\ http.route = "validateSession"
  /\ ~http.result
  /\ http.token \in DOMAIN sessionLog
  /\ ~sessionLog[http.token].destroyed
  /\ http.token \notin DOMAIN activeSessions
  /\ \E token \in DOMAIN activeSessions :
       /\ now - sessionLog[token].createdAt = 24 * 3600
       /\ validateSession(token)

(***************************************************************************)
(* Admin routes                                                            *)
(***************************************************************************)

\* authHeader.replace('Bearer ', ''): the first occurrence removed
ReplaceBearer(header) ==
  LET bearer == <<"B", "e", "a", "r", "e", "r", " ">>
      at == { i \in 1..Len(header) :
                /\ i + Len(bearer) - 1 <= Len(header)
                /\ SubSeq(header, i, i + Len(bearer) - 1) = bearer }
  IN  IF at = {}
      THEN header
      ELSE LET first == CHOOSE i \in at : \A j \in at : i <= j
           IN  SubSeq(header, 1, first - 1)
                 \o SubSeq(header, first + Len(bearer), Len(header))

\* requireAuth: a missing or empty Authorization header (<< >>) fails
requireAuth_HeaderOnly(header) == header # << >>

requireAuth(header) ==
  /\ header # << >>
  /\ validateSession(ReplaceBearer(header))

\* the admin routes other than login: requireAuth first; then the body
\* checks, the store statements (recorded by table in reads and writes)
\* and, for sendNotification, the message to the Telegram API. A field
\* left out of the body is 0 or "", stock left out is -1; botToken is
\* whether TELEGRAM_BOT_TOKEN is set, delivered the API's answer
AdminRequest(route, header, body, botToken, delivered) ==
  LET Answer(code, reads, writes, sent) ==
        [route |-> route, header |-> header, code |-> code, token |-> << >>,
         reads |-> reads, writes |-> writes, sent |-> sent]
  IN
  /\ activeSessions' =
       IF header = << >> THEN activeSessions
       ELSE SessionsAfterValidate(ReplaceBearer(header))
  /\ IF ~requireAuth(header)
     THEN /\ http' = Answer(401, {}, {}, FALSE)
          /\ UNCHANGED <<products, orders>>
     ELSE CASE route = "getStats" ->
                 /\ http' = Answer(200, {"orders", "products"}, {}, FALSE)
                 /\ UNCHANGED <<products, orders>>
            [] route = "getOrders" ->
                 /\ http' = Answer(200, {"orders", "order_items", "products"},
                                   {}, FALSE)
                 /\ UNCHANGED <<products, orders>>
            [] route = "updateOrderStatus" ->
                 IF body.orderId = 0 \/ body.status = ""
                    \/ body.status \notin ORDER_STATUSES
                 THEN /\ http' = Answer(400, {}, {}, FALSE)
                      /\ UNCHANGED <<products, orders>>
                 ELSE /\ orders' =
                           [id \in DOMAIN orders |->
                              IF id = body.orderId
                              THEN [orders[id] EXCEPT !.status = body.status,
                                                      !.updatedAt = now]
                              ELSE orders[id]]
                      /\ http' = Answer(200, {}, {"orders"}, FALSE)
                      /\ UNCHANGED products
            [] route = "getProducts" ->
                 /\ http' = Answer(200, {"products"}, {}, FALSE)
                 /\ UNCHANGED <<products, orders>>
            [] route = "updateProductStock" ->
                 IF body.productId = 0 \/ body.stock < 0
                 THEN /\ http' = Answer(400, {}, {}, FALSE)
                      /\ UNCHANGED <<products, orders>>
                 ELSE /\ SetStock(body.productId, body.stock)
                      /\ http' = Answer(200, {}, {"products"}, FALSE)
                      /\ UNCHANGED orders
            [] route = "sendNotification" ->
                 /\ http' =
                      IF body.customer = "" \/ body.type = ""
                         \/ body.message = ""
                      THEN Answer(400, {}, {}, FALSE)
                      ELSE IF ~botToken
                      THEN Answer(500, {}, {}, FALSE)
                      ELSE Answer(IF delivered THEN 200 ELSE 400,
                                  {}, {}, TRUE)
                 /\ UNCHANGED <<products, orders>>
  /\ UNCHANGED <<now, ticks, sessionLog, notification, orderItems, rowLock,
                 pc, req, idx, productValidation, txOrder, txStock, error,
                 calledAt, validation>>
  /\ UNCHANGED statusVars

\* logins, requests to every route with no header, with a token after
\* Bearer, with a bare token and with a token Bearer is written into, the
\* body filled in or empty, the Telegram API answering or refusing or its
\* token not set, logouts, the clock running
NextRoutes ==
  \/ \E password \in {"admin123", "letmein"},
        token \in { <<"a", "1">>, <<"b", "2">> } :
       LoginRoute("admin", password, token)
  \/ LET filled == [orderId |-> 1, status |-> "received", productId |-> 1,
                    stock |-> 0, customer |-> "42", type |-> "order_update",
                    message |-> "On its way"]
         empty == [orderId |-> 0, status |-> "", productId |-> 0,
                   stock |-> -1, customer |-> "", type |-> "",
                   message |-> ""]
         requests ==
           { <<route, empty, FALSE, FALSE>> :
               route \in {"getStats", "getOrders", "getProducts",
                          "updateOrderStatus", "updateProductStock",
                          "sendNotification"} }
           \cup { <<route, filled, FALSE, FALSE>> :
                    route \in {"updateOrderStatus", "updateProductStock",
                               "sendNotification"} }
           \cup { <<"sendNotification", filled, TRUE, delivered>> :
                    delivered \in BOOLEAN }
     IN  \E request \in requests,
            header \in { << >>, <<"a", "1">>,
                         <<"a", "B", "e", "a", "r", "e", "r", " ", "1">>,
                         <<"B", "e", "a", "r", "e", "r", " ", "a", "1">>,
                         <<"B", "e", "a", "r", "e", "r", " ", "b", "2">> } :
           AdminRequest(request[1], header, request[2], request[3],
                        request[4])
  \/ DestroySession(<<"a", "1">>)
  \/ \E seconds \in {1, SessionLifetime} : Elapse(seconds)

SpecRoutes == Init /\ [][NextRoutes]_vars

\* the header carries the token: the token is what remains of the header
\* when one stretch of it (a prefix such as Bearer) is taken out
Carries(header, token) ==
  \E i \in 0..Len(header) : \E j \in i..Len(header) :
    SubSeq(header, 1, i) \o SubSeq(header, j + 1, Len(header)) = token

\* C39: a request to an admin route other than login whose Authorization
\* header carries no session token for which validateSession is true at
\* that time is answered 401, reads and writes nothing in the store,
\* changes no row and sends no message
C39_RoutesRequireValidSession ==
  [][(/\ http' # http
      /\ http'.route \in {"getStats", "getOrders", "updateOrderStatus",
                          "getProducts", "updateProductStock",
                          "sendNotification"}
      /\ ~\E token \in SessionTokens :
            /\ validateSession(token)
            /\ Carries(http'.header, token))
       => /\ http'.code = 401
          /\ http'.reads = {}
          /\ http'.writes = {}
          /\ ~http'.sent
          /\ UNCHANGED <<products, orders, orderItems>>]_vars

\* a stock edit refused for a header that carries an expired session's
\* token, after one made with the same session was carried out
C39_Witness ==
  /\ http # NoAnswer
  /\ http.route = "updateProductStock"
  /\ http.code = 401
  /\ \E token \in DOMAIN sessionLog :
       /\ Carries(http.header, token)
       /\ ~sessionLog[token].destroyed
       /\ now - sessionLog[token].createdAt > SessionLifetime
  /\ products[1].stock = 0

(***************************************************************************)
(* Customer notification tool                                              *)
(***************************************************************************)

AUTHORIZED_ADMIN_TOKENS ==
  {"admin_token_2024_primary", "admin_token_2024_secondary",
   "dev_admin_token_local"}

AUTHORIZED_ADMIN_ROLES ==
  {"business_owner", "store_manager", "order_admin", "system_admin"}

\* validateAdminAuthorization: a token or role left out, or empty, is ""
\* (both are falsy)
validateAdminAuthorization_RoleSuffices(adminAuth) ==
  IF adminAuth.role \in AUTHORIZED_ADMIN_ROLES
  THEN [authorized |-> TRUE, reason |-> ""]
  ELSE [authorized |-> FALSE,
        reason |-> "Admin authorization failed: invalid role"]

validateAdminAuthorization(adminAuth) ==
  IF adminAuth.token = "" /\ adminAuth.role = ""
  THEN [authorized |-> FALSE,
        reason |-> "Admin authorization required: missing token and role"]
  ELSE IF adminAuth.token # ""
          /\ adminAuth.token \notin AUTHORIZED_ADMIN_TOKENS
  THEN [authorized |-> FALSE,
        reason |-> "Admin authorization failed: invalid token"]
  ELSE IF adminAuth.role # "" /\ adminAuth.role \notin AUTHORIZED_ADMIN_ROLES
  THEN [authorized |-> FALSE,
        reason |-> "Admin authorization failed: invalid role"]
  ELSE IF /\ adminAuth.token # "" /\ adminAuth.role # ""
          /\ \/ adminAuth.token \notin AUTHORIZED_ADMIN_TOKENS
             \/ adminAuth.role \notin AUTHORIZED_ADMIN_ROLES
  THEN [authorized |-> FALSE,
        reason |-> "Admin authorization failed: token and role mismatch"]
  ELSE [authorized |-> TRUE, reason |-> ""]

\* customerNotificationTool.execute: the authorization gate, then the
\* action. read is the set of order ids looked up in the store; the text of
\* a notification is modelled by what it is built from; an order id,
\* status or Telegram user id left out is 0 or ""
customerNotificationTool(adminAuth, action, orderId, newStatus, telegramUserId) ==
  LET authResult == validateAdminAuthorization(adminAuth)
      Answer(success, errorCode, read, chat_id, text, message) ==
        [adminAuth |-> adminAuth, action |-> action, success |-> success,
         error |-> errorCode, read |-> read,
         notification |-> [chat_id |-> chat_id, text |-> text],
         message |-> message]
      ForOrder(text, sent) ==
        IF orderId \notin DOMAIN orders
        THEN Answer(FALSE, "", {orderId}, "", << >>,
                    <<"Failed to send customer notification", "Order",
                      orderId, "not found">>)
        ELSE Answer(TRUE, "", {orderId}, orders[orderId].telegramUserId,
                    text, <<sent, orderId>>)
  IN
  /\ notification' =
       IF ~authResult.authorized
       THEN Answer(FALSE, "UNAUTHORIZED", {}, "", << >>,
                   <<"Access denied", authResult.reason>>)
       ELSE CASE action = "send_status_notification" ->
                   IF orderId = 0 \/ newStatus = ""
                   THEN Answer(FALSE, "", {}, "", << >>,
                          <<"Order ID and new status are required for status notifications">>)
                   ELSE ForOrder(<<"status", newStatus, orderId>>,
                          "Status notification sent to customer for order")
              [] action = "send_delivery_reminder" ->
                   IF orderId = 0
                   THEN Answer(FALSE, "", {}, "", << >>,
                          <<"Order ID is required for delivery reminders">>)
                   ELSE ForOrder(<<"reminder", "delivery_approaching",
                                   orderId>>,
                          "Delivery reminder sent to customer for order")
              [] action = "send_promo_notification" ->
                   IF telegramUserId = ""
                   THEN Answer(FALSE, "", {}, "", << >>,
                          <<"Telegram user ID is required for promotional notifications">>)
                   ELSE Answer(TRUE, "", {}, telegramUserId,
                          <<"promo", "welcome">>,
                          <<"Promotional notification sent to user",
                            telegramUserId>>)
  /\ UNCHANGED <<now, ticks, activeSessions, sessionLog, http>>
  /\ UNCHANGED coreVars
  /\ UNCHANGED statusVars

\* an order created, and notifications asked for with every combination
\* of no, an authorized and an unknown token and role, for that order, for
\* an order that does not exist and for a Telegram user
NextNotify ==
  \/ \E r \in StatusRequests : CreateOrder(1, r)
  \/ SelectForUpdate(1)
  \/ InsertOrder(1)
  \/ UpdateStock(1)
  \/ Commit(1)
  \/ \E token \in {"", "admin_token_2024_primary", "forged_token"},
        role \in {"", "store_manager", "customer"},
        request \in { <<"send_status_notification", 1, "received", "">>,
                      <<"send_status_notification", 9, "received", "">>,
                      <<"send_status_notification", 0, "", "">>,
                      <<"send_delivery_reminder", 1, "", "">>,
                      <<"send_promo_notification", 0, "", "tg2002">>,
                      <<"send_promo_notification", 0, "", "">> } :
       customerNotificationTool([token |-> token, role |-> role],
                                request[1], request[2], request[3],
                                request[4])

SpecNotify == Init /\ [][NextNotify]_vars

\* the customer-notification tool built a notification
NotificationBuilt ==
  /\ notification # NoAnswer
  /\ \/ notification.success
     \/ notification.notification.chat_id # ""
     \/ notification.notification.text # << >>

\* C40: the customer-notification tool builds a notification only when a
\* token or a role was supplied and every one supplied is in its
\* authorized list (so an unknown token is refused whatever the role); a
\* refused request looks up no order and is answered UNAUTHORIZED with an
\* empty notification
C40_NotificationOnlyWhenAuthorized ==
  notification # NoAnswer =>
    LET token == notification.adminAuth.token
        role == notification.adminAuth.role
        allowed == /\ token # "" \/ role # ""
                   /\ token # "" => token \in AUTHORIZED_ADMIN_TOKENS
                   /\ role # "" => role \in AUTHORIZED_ADMIN_ROLES
    IN  /\ NotificationBuilt => allowed
        /\ ~allowed =>
             /\ notification.error = "UNAUTHORIZED"
             /\ ~notification.success
             /\ notification.read = {}
             /\ notification.notification = [chat_id |-> "", text |-> << >>]

\* a status notification for an existing order refused for an unknown token
\* given with an authorized role
C40_Witness ==
  /\ notification # NoAnswer
  /\ notification.adminAuth.token = "forged_token"
  /\ notification.adminAuth.role \in AUTHORIZED_ADMIN_ROLES
  /\ notification.action = "send_status_notification"
  /\ notification.error = "UNAUTHORIZED"
  /\ 1 \in DOMAIN orders

====
